---- MODULE Spec2Model ----
(***************************************************************************)
(* Study-logger bot: the session store (sessionManager.js), the quiz       *)
(* authoring workflow (quiz.js) and the dispatcher entries that route      *)
(* authoring buttons to it (handlers.js).                                  *)
(*                                                                         *)
(* Every handler is one atomic action.  The clock is the value the         *)
(* handler reads with moment() / Date.now(): a handler that reads it       *)
(* draws a reading t >= clock from Instants and leaves clock' = t.         *)
(***************************************************************************)
EXTENDS Integers, Sequences, FiniteSets, TLC

VARIABLES
    activeSessions,   \* SessionManager.activeSessions: Map userId -> session
    sessionMessages,  \* SessionManager.sessionMessages: Map userId -> [messageId]
    clock,            \* the last clock reading, in ticks
    ret,              \* the last store call and the value it returned
    completed,        \* history: per user, endBreak calls made while on break
                      \*          since the user's last startSession
    userState,        \* Quiz.userState: Map userId -> draft
    questions,        \* Quiz.questions: Map questionId -> question
    chat,             \* the messages displayed in the chat: Map messageId -> message
    nextMessageId,    \* the id the chat platform gives the next message
    timers,           \* pending setTimeout callbacks
    lastMenuMessage,  \* dispatcher's sessionManager.lastMenuMessage
    lastSubjectMessage, \* dispatcher's sessionManager.lastSubjectMessage
    studySessions,    \* dispatcher's sessionManager.activeSessions
    acks,             \* the answerCallbackQuery alerts shown, in order
    answerTimers,     \* pending explanation timeouts of handleAnswer, in order
    explained,        \* the explanation messages posted, in order
    deleteProgress    \* history: per question id, the delete steps its creator
                      \*          has completed in a row (0, 1 or 2)

vars == <<activeSessions, sessionMessages, clock, ret, completed,
          userState, questions, chat, nextMessageId, timers,
          lastMenuMessage, lastSubjectMessage, studySessions,
          acks, answerTimers, explained, deleteProgress>>

sessionVars == <<activeSessions, sessionMessages, completed>>
questionVars == <<acks, answerTimers, explained, deleteProgress>>
quizVars == <<userState, questions, chat, nextMessageId, timers,
              lastMenuMessage, lastSubjectMessage, studySessions, questionVars>>
storeVars == <<activeSessions, sessionMessages, ret, completed>>

----------------------------------------------------------------------------
(* Bounds *)

\* clock ticks per minute (the clock is finer than moment's 'minutes' unit)
MinuteTicks == 2
\* breaks a session may start
MaxBreaks == 2
\* tracked messages per user in sessionMessages
MaxSessionMessages == 1
\* messages the chat platform hands out ids for
MaxMessages == 27
\* message ids one author's workflow may use
QuizMessages == 19
\* questions the store may hold
MaxQuestions == 2
\* message ids the menu, picker and cancel clicks may use
MenuMessages == 10
\* answer clicks
MaxAnswers == 2
\* message ids the workflow and the clicks on the published question may use
QuestionMessages == 18
\* the message ids the goal-flow specification explores
GoalMessages == 7
\* the message ids the free-input specification explores
InputMessages == 11
\* the message ids the screens specification explores
ScreenMessages == 6
\* the message ids the typing specification explores
TypingMessages == 14
\* the messages typed outside any topic that the typing specification explores
MaxStray == 1
\* the message ids the photo specification explores
PhotoMessages == 14
\* the message ids the routing specification explores
RoutingMessages == 9
\* the message ids the typed-goal specification explores
GoalInputMessages == 9
\* the message ids the command specification explores
CommandMessages == 13

Users == {"u1", "u2"}
Subjects == {"CC", "HEMA"}
\* goal 0 is "no goal"; 16 gives percentages that end in .5; 60 is the
\* documented scenario
Goals == {0, 16, 60}
CoarseGoals == {0, 60}
Statuses == {"studying", "break"}
MessageIds == {101}

\* the clock readings the handlers may see
Instants ==
    {0, 40 * MinuteTicks, (50 * MinuteTicks) + 1, (90 * MinuteTicks) + 1}
\* the readings used where only the order of events matters
CoarseInstants == {0, MinuteTicks + 1}

Null == -1

----------------------------------------------------------------------------
(* Map helpers: a Map is a function whose domain is the set of its keys *)

MapSet(m, k, v) == [x \in (DOMAIN m) \cup {k} |-> IF x = k THEN v ELSE m[x]]
MapDelete(m, k) == [x \in (DOMAIN m) \ {k} |-> m[x]]
EmptyMap == [x \in {} |-> 0]

RECURSIVE SumDurations(_)
SumDurations(bs) ==
    IF bs = <<>> THEN 0 ELSE bs[1].duration + SumDurations(Tail(bs))

----------------------------------------------------------------------------
(* sessionManager.js *)

\* moment.diff(other, 'minutes'): whole minutes, truncated toward zero
DiffMinutes(a, b) ==
    IF a >= b THEN (a - b) \div MinuteTicks
    ELSE -((b - a) \div MinuteTicks)

\* Math.round: the nearest integer, a half rounding up
MathRound(num, den) == ((2 * num) + den) \div (2 * den)

NewSession(subject, goalTimeMinutes, t) ==
    [subject |-> subject,
     status |-> "studying",
     startTime |-> t,
     goalTimeMinutes |-> goalTimeMinutes,
     breaks |-> <<>>,
     currentBreak |-> Null,
     totalBreakMinutes |-> 0,
     messages |-> <<>>]

calculateStudyTime_IgnoresBreaks(session, endTime) ==
    DiffMinutes(endTime, session.startTime)

calculateStudyTime(session, endTime) ==
    DiffMinutes(endTime, session.startTime) - session.totalBreakMinutes

Percentage(session, totalStudyMinutes) ==
    IF session.goalTimeMinutes # 0
    THEN MathRound(totalStudyMinutes * 100, session.goalTimeMinutes)
    ELSE 100

EndSessionStats(session, endTime) ==
    LET totalStudyMinutes == calculateStudyTime(session, endTime) IN
    [subject |-> session.subject,
     goalTime |-> session.goalTimeMinutes,
     actualTime |-> totalStudyMinutes,
     breakTime |-> session.totalBreakMinutes,
     totalTime |-> totalStudyMinutes + session.totalBreakMinutes,
     startTime |-> session.startTime,
     endTime |-> endTime,
     percentage |-> Percentage(session, totalStudyMinutes)]

\* a break that is measured from the start of the session
StartBreakSession_FromSessionStart(session, t) ==
    [session EXCEPT !.status = "break", !.currentBreak = session.startTime]

StartBreakSession(session, t) ==
    [session EXCEPT !.status = "break", !.currentBreak = t]

EndBreakSession_NoLogEntry(session, breakEnd) ==
    LET breakMinutes == DiffMinutes(breakEnd, session.currentBreak) IN
    [session EXCEPT
        !.totalBreakMinutes = @ + breakMinutes,
        !.currentBreak = Null,
        !.status = "studying"]

EndBreakSession(session, breakEnd) ==
    LET breakMinutes == DiffMinutes(breakEnd, session.currentBreak) IN
    [session EXCEPT
        !.totalBreakMinutes = @ + breakMinutes,
        !.breaks = Append(@, [start |-> session.currentBreak,
                              end |-> breakEnd,
                              duration |-> breakMinutes]),
        !.currentBreak = Null,
        !.status = "studying"]

\* ret records an endSession call and its return value (<<>> is null, <<stats>>
\* a snapshot), or a deleteQuestion call; any other store call leaves NoCall
Call(op, u, value) == [op |-> op, user |-> u, value |-> value]
NoCall == Call("other", "", <<>>)

startSession_KeepsMessages(u, subject, goalTimeMinutes, t) ==
    /\ t >= clock
    /\ UNCHANGED sessionMessages
    /\ activeSessions' = MapSet(activeSessions, u, NewSession(subject, goalTimeMinutes, t))
    /\ clock' = t
    /\ completed' = [completed EXCEPT ![u] = 0]
    /\ ret' = NoCall
    /\ UNCHANGED quizVars

startSession(u, subject, goalTimeMinutes, t) ==
    /\ t >= clock
    /\ sessionMessages' = MapDelete(sessionMessages, u)
    /\ activeSessions' = MapSet(activeSessions, u, NewSession(subject, goalTimeMinutes, t))
    /\ clock' = t
    /\ completed' = [completed EXCEPT ![u] = 0]
    /\ ret' = NoCall
    /\ UNCHANGED quizVars

endSession_KeepsSession(u, t) ==
    /\ t >= clock
    /\ IF u \in DOMAIN activeSessions
       THEN /\ ret' = Call("endSession", u, <<EndSessionStats(activeSessions[u], t)>>)
            /\ clock' = t
            /\ UNCHANGED activeSessions
       ELSE /\ ret' = Call("endSession", u, <<>>)
            /\ UNCHANGED <<activeSessions, clock>>
    /\ UNCHANGED <<sessionMessages, completed>>
    /\ UNCHANGED quizVars

endSession(u, t) ==
    /\ t >= clock
    /\ IF u \in DOMAIN activeSessions
       THEN /\ ret' = Call("endSession", u, <<EndSessionStats(activeSessions[u], t)>>)
            /\ activeSessions' = MapDelete(activeSessions, u)
            /\ clock' = t
       ELSE /\ ret' = Call("endSession", u, <<>>)
            /\ UNCHANGED <<activeSessions, clock>>
    /\ UNCHANGED <<sessionMessages, completed>>
    /\ UNCHANGED quizVars

startBreak_NoStatusCheck(u, t) ==
    /\ t >= clock
    /\ IF u \in DOMAIN activeSessions
       THEN /\ Len(activeSessions[u].breaks) < MaxBreaks
            /\ activeSessions' =
                   [activeSessions EXCEPT ![u] = StartBreakSession(@, t)]
            /\ clock' = t
       ELSE UNCHANGED <<activeSessions, clock>>
    /\ ret' = NoCall
    /\ UNCHANGED <<sessionMessages, completed>>
    /\ UNCHANGED quizVars

startBreak(u, t) ==
    /\ t >= clock
    /\ IF /\ u \in DOMAIN activeSessions
          /\ activeSessions[u].status = "studying"
       THEN /\ Len(activeSessions[u].breaks) < MaxBreaks
            /\ activeSessions' =
                   [activeSessions EXCEPT ![u] = StartBreakSession(@, t)]
            /\ clock' = t
       ELSE UNCHANGED <<activeSessions, clock>>
    /\ ret' = NoCall
    /\ UNCHANGED <<sessionMessages, completed>>
    /\ UNCHANGED quizVars

endBreakCall(u, t) ==
    /\ t >= clock
    /\ IF /\ u \in DOMAIN activeSessions
          /\ activeSessions[u].status = "break"
          /\ activeSessions[u].currentBreak # Null
       THEN /\ activeSessions' =
                   [activeSessions EXCEPT ![u] = EndBreakSession(@, t)]
            /\ clock' = t
       ELSE UNCHANGED <<activeSessions, clock>>
    /\ ret' = NoCall
    /\ UNCHANGED sessionMessages
    /\ UNCHANGED quizVars

endBreak(u, t) == endBreakCall(u, t) /\ UNCHANGED completed

\* endBreak with the history of the calls made while the session was on break
endBreakCounted(u, t) ==
    /\ endBreakCall(u, t)
    /\ completed' =
           IF u \in DOMAIN activeSessions /\ activeSessions[u].status = "break"
           THEN [completed EXCEPT ![u] = @ + 1]
           ELSE completed

updateSessionStatus(u, status) ==
    /\ IF u \in DOMAIN activeSessions
       THEN activeSessions' = [activeSessions EXCEPT ![u].status = status]
       ELSE UNCHANGED activeSessions
    /\ ret' = NoCall
    /\ UNCHANGED <<sessionMessages, clock, completed>>
    /\ UNCHANGED quizVars

setGoalTime(u, minutes) ==
    /\ IF u \in DOMAIN activeSessions
       THEN activeSessions' = [activeSessions EXCEPT ![u].goalTimeMinutes = minutes]
       ELSE UNCHANGED activeSessions
    /\ ret' = NoCall
    /\ UNCHANGED <<sessionMessages, clock, completed>>
    /\ UNCHANGED quizVars

getSessionMessages(u) ==
    IF u \in DOMAIN sessionMessages THEN sessionMessages[u] ELSE <<>>

addSessionMessage(u, messageId) ==
    /\ Len(getSessionMessages(u)) < MaxSessionMessages
    /\ sessionMessages' = MapSet(sessionMessages, u, Append(getSessionMessages(u), messageId))
    /\ ret' = NoCall
    /\ UNCHANGED <<activeSessions, clock, completed>>
    /\ UNCHANGED quizVars

----------------------------------------------------------------------------
(* Values of the quiz workflow *)

\* an optional field of a JS object: <<>> is undefined, <<v>> is the value v
Undefined == <<>>
Some(v) == <<v>>
IsDefined(o) == o # <<>>
Get(o) == o[1]

\* a text is the sequence of its lines (text.split('\n')); a Telegram text is
\* never empty
Texts ==
    { <<"C">>, <<"a">>, <<"x", " y", "z">>, <<"x", " ">>,
      <<"x", "y", "x", "y", "x", "">> }

\* String.prototype.trim on the lines in use
Trim(line) ==
    CASE line = " " -> ""
      [] line = " y" -> "y"
      [] OTHER -> line

\* String.prototype.toLowerCase on the lines in use
ToLowerCase(line) ==
    CASE line = "C" -> "c"
      [] OTHER -> line

\* String.fromCharCode(97 + index), index from 0
Letters == <<"a", "b", "c", "d", "e", "f">>

TextMessage(text) == [text |-> Some(text), photo |-> FALSE, caption |-> Undefined]
PhotoMessage(caption) == [text |-> Undefined, photo |-> TRUE, caption |-> caption]
Messages ==
    {TextMessage(t) : t \in Texts}
        \cup {PhotoMessage(Undefined), PhotoMessage(Some(<<"a">>))}

\* the inline keyboards, by the kind of message that carries them
Button(action, arg) == [action |-> action, arg |-> arg]
Buttons(message) ==
    CASE message.kind = "menu" ->
            {Button("start_studying", ""), Button("create_question", "")}
      [] message.kind = "question_subject" ->
            {Button("select_subject", s) : s \in Subjects}
                \cup {Button("cancel_question", "")}
      [] message.kind = "prompt" -> {Button("cancel_question", "")}
      [] message.kind = "choices_confirmation" ->
            {Button("confirm_choices", ""), Button("retry_choices", "")}
      [] message.kind = "answer_confirmation" ->
            {Button("confirm_answer", ""), Button("retry_answer", "")}
      [] message.kind = "cancelled" -> {Button("create_question", "")}
      [] message.kind = "deleted" -> {Button("create_question", "")}
      [] message.kind = "studying" ->
            {Button("start_break", ""), Button("end_session", "")}
      [] message.kind = "subject" ->
            {Button("select_subject", s) : s \in Subjects}
                \cup {Button("cancel_studying", "")}
      [] message.kind = "study_cancelled" ->
            {Button("start_studying", ""), Button("create_question", "")}
      [] message.kind = "ended" ->
            {Button("start_studying", ""), Button("create_question", "")}
      [] message.kind = "question_cancelled" ->
            {Button("start_studying", ""), Button("create_question", "")}
      [] message.kind = "design" -> {Button("select_design", "1")}
      [] message.kind = "goal_prompt" -> {Button("cancel_question", "")}
      [] message.kind = "goal_error" -> {Button("cancel_question", "")}
      [] message.kind = "goal_confirmation" ->
            {Button("confirm_goal", ""), Button("retry_goal", "")}
      [] message.kind = "goal_subject" ->
            {Button("select_subject", s) : s \in Subjects}
      [] message.kind = "share" ->
            {Button("share_instagram", ""), Button("share_facebook", ""),
             Button("dont_share", "")}
      [] message.kind = "break" ->
            {Button("end_break", ""), Button("end_session", "")}
      [] message.kind = "goal" -> {Button("set_goal", ""), Button("skip_goal", "")}
      [] message.kind = "study_subject" ->
            {Button("select_subject", s) : s \in Subjects}
      [] OTHER -> {}

Message(kind) == [kind |-> kind, question |-> Undefined]
QuizMessage(questionId) == [kind |-> "quiz", question |-> Some(questionId)]

\* a deletion loop that stops at the first message it fails to delete
Deleted_AllOrNothing(c, ids) ==
    IF ids \subseteq DOMAIN c THEN [m \in (DOMAIN c) \ ids |-> c[m]] ELSE c

\* bot.deleteMessage (a failure is caught): the messages leave the chat
Deleted(c, ids) == [m \in (DOMAIN c) \ ids |-> c[m]]

Displays(m, action) ==
    /\ m \in DOMAIN chat
    /\ \E b \in Buttons(chat[m]) : b.action = action

RECURSIVE Range(_)
Range(seq) == IF seq = <<>> THEN {} ELSE {seq[1]} \cup Range(Tail(seq))

RECURSIVE SelectSeq2(_, _)
SelectSeq2(seq, keep) ==
    IF seq = <<>> THEN <<>>
    ELSE IF seq[1] \in keep THEN <<seq[1]>> \o SelectSeq2(Tail(seq), keep)
    ELSE SelectSeq2(Tail(seq), keep)

----------------------------------------------------------------------------
(* quiz.js *)

EmptyQuestionData ==
    [subject |-> Undefined, question |-> Undefined, image |-> Undefined,
     tempChoices |-> Undefined, choices |-> Undefined,
     tempAnswer |-> Undefined, correctAnswer |-> Undefined]

NewDraft ==
    [state |-> "WAITING_SUBJECT",
     questionData |-> EmptyQuestionData,
     tempMessages |-> <<>>]

HasDraft(u) == u \in DOMAIN userState

\* rawChoices.filter(choice => choice.trim() !== '')
NonEmptyLines(rawChoices) ==
    SelectSeq2(rawChoices, {l \in Range(rawChoices) : Trim(l) # ""})

formatChoices(rawChoices) ==
    LET kept == NonEmptyLines(rawChoices) IN
    [i \in 1..Len(kept) |-> [label |-> Letters[i], text |-> Trim(kept[i])]]

\* rawChoices.length < 2 || rawChoices.length > 5
ChoiceCountRejected(rawChoices) == Len(rawChoices) < 2 \/ Len(rawChoices) > 5

\* Array.from({ length: maxChoice }, (_, i) => String.fromCharCode(97 + i))
validAnswers(choices) == {Letters[i] : i \in 1..Len(choices)}

\* msg.text.toLowerCase(): a text of several lines is no answer letter
AnswerOf(text) == IF Len(text) = 1 THEN ToLowerCase(text[1]) ELSE "\n"

addTempMessage(us, u, messageId) ==
    IF u \in DOMAIN us
    THEN [us EXCEPT ![u].tempMessages = Append(@, messageId)]
    ELSE us

\* the ids cleanupMessages deletes: the tempMessages of every draft
AllTempMessages(us) == UNION {Range(us[u].tempMessages) : u \in DOMAIN us}

ClearedTempMessages(us) == [u \in DOMAIN us |-> [us[u] EXCEPT !.tempMessages = <<>>]]

PublishedQuestion(questionData, msg, u, questionId) ==
    [subject |-> questionData.subject,
     question |-> questionData.question,
     image |-> questionData.image,
     tempChoices |-> questionData.tempChoices,
     choices |-> questionData.choices,
     tempAnswer |-> questionData.tempAnswer,
     correctAnswer |-> questionData.correctAnswer,
     explanation |-> msg.text,
     creatorId |-> u,
     id |-> questionId]

startQuestionCreation(us, u) == MapSet(us, u, NewDraft)

\* handleQuestionCreation(msg, bot) for a sender with a draft: the user's
\* message has id nextMessageId, the bot's reply nextMessageId + 1
handleQuestionCreation(u, msg, t) ==
    /\ HasDraft(u)
    /\ nextMessageId + 1 <= MaxMessages
    /\ LET userMsg == nextMessageId
           botMsg == nextMessageId + 1
           draft == userState[u]
           data == draft.questionData
           tracked == addTempMessage(userState, u, userMsg)
           shown == MapSet(chat, userMsg, Message("user"))
           \* the reply is sent and tracked, the draft becomes d
           reply(d, kind) ==
               /\ userState' = addTempMessage([tracked EXCEPT ![u] =
                                   [d EXCEPT !.tempMessages = tracked[u].tempMessages]], u, botMsg)
               /\ chat' = MapSet(shown, botMsg, Message(kind))
               /\ nextMessageId' = nextMessageId + 2
               /\ UNCHANGED <<questions, clock>>
           \* nothing is sent
           silent ==
               /\ userState' = tracked
               /\ chat' = shown
               /\ nextMessageId' = nextMessageId + 1
               /\ UNCHANGED <<questions, clock>>
       IN
       IF msg.photo /\ draft.state = "WAITING_QUESTION"
       THEN IF IsDefined(msg.caption)
            THEN reply([draft EXCEPT
                           !.questionData.image = Some([caption |-> msg.caption]),
                           !.questionData.question = msg.caption,
                           !.state = "WAITING_CHOICES"], "prompt")
            ELSE reply([draft EXCEPT
                           !.questionData.image = Some([caption |-> Undefined])], "prompt")
       ELSE CASE draft.state = "WAITING_QUESTION" ->
                 IF IsDefined(msg.text)
                 THEN reply([draft EXCEPT !.questionData.question = msg.text,
                                          !.state = "WAITING_CHOICES"], "prompt")
                 ELSE silent
              [] draft.state = "WAITING_CHOICES" ->
                 IF ~ IsDefined(msg.text) THEN silent
                 ELSE IF ChoiceCountRejected(Get(msg.text))
                 THEN reply(draft, "prompt")
                 ELSE reply([draft EXCEPT !.questionData.tempChoices =
                                Some(formatChoices(Get(msg.text)))],
                            "choices_confirmation")
              [] draft.state = "WAITING_CORRECT_ANSWER" ->
                 IF ~ IsDefined(msg.text) THEN silent
                 \* choices undefined: choices.length throws
                 ELSE IF ~ IsDefined(data.choices) THEN silent
                 ELSE IF ~ (AnswerOf(Get(msg.text)) \in validAnswers(Get(data.choices)))
                 THEN reply(draft, "prompt")
                 ELSE reply([draft EXCEPT !.questionData.tempAnswer =
                                Some(AnswerOf(Get(msg.text)))],
                            "answer_confirmation")
              [] draft.state = "WAITING_EXPLANATION" ->
                 /\ t >= clock
                 /\ (Cardinality(DOMAIN questions) < MaxQuestions \/ t \in DOMAIN questions)
                 /\ clock' = t
                 /\ questions' = MapSet(questions, t, PublishedQuestion(data, msg, u, t))
                 /\ userState' = MapDelete(ClearedTempMessages(tracked), u)
                 /\ chat' = MapSet(Deleted(shown, AllTempMessages(tracked)),
                                   botMsg, QuizMessage(t))
                 /\ nextMessageId' = nextMessageId + 2
              [] OTHER -> silent
    /\ UNCHANGED <<timers, lastMenuMessage, lastSubjectMessage, studySessions>>
    /\ UNCHANGED <<storeVars, questionVars>>

\* the prompt of a confirm / retry handler for a draft d of u
PromptAfter(u, m, d) ==
    /\ userState' = addTempMessage([userState EXCEPT ![u] = d], u, nextMessageId)
    /\ chat' = MapSet(Deleted(chat, {m}), nextMessageId, Message("prompt"))
    /\ nextMessageId' = nextMessageId + 1

\* the handler returns (or throws) before it sends anything
NothingSent(us, m) ==
    /\ userState' = us
    /\ chat' = Deleted(chat, {m})
    /\ UNCHANGED nextMessageId

ClickFrame ==
    /\ UNCHANGED <<questions, clock, timers, lastMenuMessage, lastSubjectMessage,
                   studySessions>>
    /\ UNCHANGED <<storeVars, questionVars>>

\* 'confirm_choices': the clicked message is deleted, then handleConfirmChoices
handleConfirmChoices(u, m) ==
    /\ Displays(m, "confirm_choices")
    /\ nextMessageId <= MaxMessages
    /\ IF ~ HasDraft(u) \/ ~ IsDefined(userState[u].questionData.tempChoices)
       THEN NothingSent(userState, m)
       ELSE PromptAfter(u, m, [userState[u] EXCEPT
                !.questionData.choices = userState[u].questionData.tempChoices,
                !.questionData.tempChoices = Undefined,
                !.state = "WAITING_CORRECT_ANSWER"])
    /\ ClickFrame

\* 'retry_choices': the clicked message is deleted, then handleRetryChoices
handleRetryChoices(u, m) ==
    /\ Displays(m, "retry_choices")
    /\ nextMessageId <= MaxMessages
    /\ IF ~ HasDraft(u)
       THEN NothingSent(userState, m)
       ELSE PromptAfter(u, m, [userState[u] EXCEPT
                !.state = "WAITING_CHOICES",
                !.questionData.tempChoices = Undefined])
    /\ ClickFrame

\* 'confirm_answer': the clicked message is deleted, then handleConfirmAnswer
handleConfirmAnswer(u, m) ==
    /\ Displays(m, "confirm_answer")
    /\ nextMessageId <= MaxMessages
    /\ IF ~ HasDraft(u) \/ ~ IsDefined(userState[u].questionData.tempAnswer)
       THEN NothingSent(userState, m)
       ELSE PromptAfter(u, m, [userState[u] EXCEPT
                !.questionData.correctAnswer = userState[u].questionData.tempAnswer,
                !.questionData.tempAnswer = Undefined,
                !.state = "WAITING_EXPLANATION"])
    /\ ClickFrame

\* 'retry_answer': the clicked message is deleted, then handleRetryAnswer; with
\* choices undefined the prompt's choices.length throws after the draft was
\* updated
handleRetryAnswer(u, m) ==
    /\ Displays(m, "retry_answer")
    /\ nextMessageId <= MaxMessages
    /\ IF ~ HasDraft(u)
       THEN NothingSent(userState, m)
       ELSE LET d == [userState[u] EXCEPT
                         !.state = "WAITING_CORRECT_ANSWER",
                         !.questionData.tempAnswer = Undefined]
            IN  IF IsDefined(d.questionData.choices)
                THEN PromptAfter(u, m, d)
                ELSE NothingSent([userState EXCEPT ![u] = d], m)
    /\ ClickFrame

----------------------------------------------------------------------------
(* handlers.js: the dispatcher entries of the authoring workflow *)

\* /start: the main menu is sent and remembered
handleStart(u) ==
    /\ nextMessageId <= MaxMessages
    /\ chat' = MapSet(chat, nextMessageId, Message("menu"))
    /\ lastMenuMessage' = nextMessageId
    /\ nextMessageId' = nextMessageId + 1
    /\ UNCHANGED <<userState, questions, clock, timers, lastSubjectMessage, studySessions>>
    /\ UNCHANGED <<storeVars, questionVars>>

\* ACTIONS.CREATE_QUESTION: the last menu is deleted, a draft is started and
\* the subject picker is sent and tracked
handleCreateQuestion(u, m) ==
    /\ Displays(m, "create_question")
    /\ nextMessageId <= MaxMessages
    /\ userState' = addTempMessage(startQuestionCreation(userState, u), u, nextMessageId)
    /\ chat' = MapSet(Deleted(chat, {lastMenuMessage}), nextMessageId,
                      Message("question_subject"))
    /\ nextMessageId' = nextMessageId + 1
    /\ UNCHANGED <<questions, clock, timers, lastMenuMessage, lastSubjectMessage,
                   studySessions>>
    /\ UNCHANGED <<storeVars, questionVars>>

\* ACTIONS.CANCEL_QUESTION: the clicked message is deleted, the draft removed,
\* and a notice is sent that a timer deletes 15 seconds later
handleCancelQuestion(u, m) ==
    /\ Displays(m, "cancel_question")
    /\ nextMessageId <= MaxMessages
    /\ userState' = MapDelete(userState, u)
    /\ chat' = MapSet(Deleted(chat, {m}), nextMessageId, Message("cancelled"))
    /\ timers' = timers \cup {nextMessageId}
    /\ nextMessageId' = nextMessageId + 1
    /\ UNCHANGED <<questions, clock, lastMenuMessage, lastSubjectMessage, studySessions>>
    /\ UNCHANGED <<storeVars, questionVars>>

\* the 15-second timer of CANCEL_QUESTION fires
cancelNoticeTimeout(m) ==
    /\ m \in timers
    /\ timers' = timers \ {m}
    /\ chat' = Deleted(chat, {m})
    /\ UNCHANGED <<userState, questions, clock, nextMessageId, lastMenuMessage,
                   lastSubjectMessage, studySessions>>
    /\ UNCHANGED <<storeVars, questionVars>>

\* select_subject:<subject>: with a draft in WAITING_SUBJECT the subject goes
\* to the draft, otherwise a study session is started
handleSelectSubject(u, m, subject) ==
    /\ m \in DOMAIN chat
    /\ Button("select_subject", subject) \in Buttons(chat[m])
    /\ nextMessageId <= MaxMessages
    /\ IF HasDraft(u) /\ userState[u].state = "WAITING_SUBJECT"
       THEN /\ userState' = addTempMessage(
                   [userState EXCEPT ![u].questionData.subject = Some(subject),
                                     ![u].state = "WAITING_QUESTION"],
                   u, nextMessageId)
            /\ chat' = MapSet(Deleted(chat, {lastSubjectMessage}), nextMessageId,
                              Message("prompt"))
            /\ UNCHANGED studySessions
       ELSE /\ studySessions' = MapSet(studySessions, u,
                                       [subject |-> subject, status |-> "studying"])
            /\ chat' = MapSet(Deleted(chat, {lastSubjectMessage}), nextMessageId,
                              Message("studying"))
            /\ UNCHANGED userState
    /\ nextMessageId' = nextMessageId + 1
    /\ UNCHANGED <<questions, clock, timers, lastMenuMessage, lastSubjectMessage>>
    /\ UNCHANGED <<storeVars, questionVars>>

----------------------------------------------------------------------------
(* quiz.js and handlers.js: answering and deleting a published question *)

QuestionMessage(kind, questionId) == [kind |-> kind, question |-> Some(questionId)]

\* the question a displayed message names in its callback data
Names(m, kind) == m \in DOMAIN chat /\ chat[m].kind = kind

\* question.choices.find(choice => choice.toLowerCase().startsWith(
\*     question.correctAnswer.toLowerCase())): undefined when there is none
CorrectChoice(question) ==
    LET cs == Get(question.choices)
        hits == {i \in 1..Len(cs) : cs[i].label = Get(question.correctAnswer)}
    IN  IF hits = {} THEN Undefined
        ELSE Some(cs[CHOOSE i \in hits : \A j \in hits : i <= j])

\* an explanation message that names the correct choice after every answer
ExplanationMessage_AlwaysChoice(timer) ==
    [questionId |-> timer.questionId,
     user |-> timer.user,
     isCorrect |-> timer.isCorrect,
     correctChoice |-> CorrectChoice(timer.question),
     explanation |-> timer.question.explanation,
     stored |-> timer.questionId \in DOMAIN questions]

\* the text of the explanation message: the correct choice is part of it
\* only after a wrong answer
ExplanationMessage(timer) ==
    [questionId |-> timer.questionId,
     user |-> timer.user,
     isCorrect |-> timer.isCorrect,
     correctChoice |-> IF timer.isCorrect THEN Undefined
                       ELSE CorrectChoice(timer.question),
     explanation |-> timer.question.explanation,
     stored |-> timer.questionId \in DOMAIN questions]

Progress(questionId) ==
    IF questionId \in DOMAIN deleteProgress THEN deleteProgress[questionId] ELSE 0

QuestionFrame ==
    /\ UNCHANGED <<userState, clock, timers, lastMenuMessage, lastSubjectMessage,
                   studySessions>>
    /\ UNCHANGED storeVars

\* handleAnswer that sets no timeout while one is pending
handleAnswer_OnePending(u, m, answer) ==
    /\ Names(m, "quiz")
    /\ Len(acks) < MaxAnswers
    /\ LET questionId == Get(chat[m].question) IN
       IF ~ (questionId \in DOMAIN questions)
       THEN UNCHANGED <<acks, answerTimers>>
       ELSE LET question == questions[questionId]
                isCorrect == Some(answer) = question.correctAnswer
            IN  /\ acks' = Append(acks, [user |-> u, questionId |-> questionId,
                                         answer |-> answer, isCorrect |-> isCorrect])
                /\ answerTimers' =
                       IF answerTimers # <<>> THEN answerTimers
                       ELSE Append(answerTimers,
                                [user |-> u, questionId |-> questionId,
                                 question |-> question, isCorrect |-> isCorrect])
    /\ UNCHANGED <<questions, chat, nextMessageId, explained, deleteProgress>>
    /\ QuestionFrame

\* 'answer:<id>:<label>' clicked on a quiz message
handleAnswer(u, m, answer) ==
    /\ Names(m, "quiz")
    /\ Len(acks) < MaxAnswers
    /\ LET questionId == Get(chat[m].question) IN
       IF ~ (questionId \in DOMAIN questions)
       THEN UNCHANGED <<acks, answerTimers>>
       ELSE LET question == questions[questionId]
                isCorrect == Some(answer) = question.correctAnswer
            IN  /\ acks' = Append(acks, [user |-> u, questionId |-> questionId,
                                         answer |-> answer, isCorrect |-> isCorrect])
                /\ answerTimers' = Append(answerTimers,
                       [user |-> u, questionId |-> questionId,
                        question |-> question, isCorrect |-> isCorrect])
    /\ UNCHANGED <<questions, chat, nextMessageId, explained, deleteProgress>>
    /\ QuestionFrame

\* the 3-second timeout of handleAnswer fires (timeouts of equal delay fire
\* in the order they were set)
answerTimeout ==
    /\ answerTimers # <<>>
    /\ nextMessageId <= MaxMessages
    /\ explained' = Append(explained, ExplanationMessage(Head(answerTimers)))
    /\ chat' = MapSet(chat, nextMessageId,
                      QuestionMessage("explanation", Head(answerTimers).questionId))
    /\ nextMessageId' = nextMessageId + 1
    /\ answerTimers' = Tail(answerTimers)
    /\ UNCHANGED <<questions, acks, deleteProgress>>
    /\ QuestionFrame

\* a dismiss that shows the question again after deleting the explanation
handleDoneReading_ShowsQuestionAgain(u, m) ==
    /\ Names(m, "explanation")
    /\ nextMessageId <= MaxMessages
    /\ IF Get(chat[m].question) \in DOMAIN questions
       THEN /\ chat' = MapSet(Deleted(chat, {m}), nextMessageId,
                              QuizMessage(Get(chat[m].question)))
            /\ nextMessageId' = nextMessageId + 1
       ELSE /\ chat' = Deleted(chat, {m})
            /\ UNCHANGED nextMessageId
    /\ UNCHANGED questions
    /\ UNCHANGED questionVars
    /\ QuestionFrame

\* 'done:<id>' clicked on an explanation message
handleDoneReading(u, m) ==
    /\ Names(m, "explanation")
    /\ chat' = Deleted(chat, {m})
    /\ UNCHANGED <<questions, nextMessageId>>
    /\ UNCHANGED questionVars
    /\ QuestionFrame

\* 'add_confirm:<id>' clicked on a quiz message
handleAddConfirmation(u, m) ==
    /\ Names(m, "quiz")
    /\ nextMessageId <= MaxMessages
    /\ LET questionId == Get(chat[m].question) IN
       IF questionId \in DOMAIN questions
       THEN /\ chat' = MapSet(chat, nextMessageId,
                              QuestionMessage("add_confirmation", questionId))
            /\ nextMessageId' = nextMessageId + 1
       ELSE UNCHANGED <<chat, nextMessageId>>
    /\ UNCHANGED questions
    /\ UNCHANGED questionVars
    /\ QuestionFrame

\* 'add_cancel:<id>' clicked on the add confirmation
handleAddCancel(u, m) ==
    /\ Names(m, "add_confirmation")
    /\ chat' = Deleted(chat, {m})
    /\ UNCHANGED <<questions, nextMessageId>>
    /\ UNCHANGED questionVars
    /\ QuestionFrame

\* 'start_new_question' clicked on the add confirmation: the clicked message
\* is deleted, a draft is started and the subject picker is sent and tracked
handleStartNewQuestion(u, m) ==
    /\ Names(m, "add_confirmation")
    /\ nextMessageId <= MaxMessages
    /\ userState' = addTempMessage(startQuestionCreation(userState, u), u, nextMessageId)
    /\ chat' = MapSet(Deleted(chat, {m}), nextMessageId, Message("question_subject"))
    /\ nextMessageId' = nextMessageId + 1
    /\ UNCHANGED <<questions, clock, timers, lastMenuMessage, lastSubjectMessage,
                   studySessions>>
    /\ UNCHANGED <<storeVars, questionVars>>

\* a delete step clicked on message m by u: the dispatcher deletes the
\* clicked message, then the quiz handler checks the question and its creator
DeleteStep(u, m, questionId, done, prompt) ==
    /\ nextMessageId <= MaxMessages
    /\ IF questionId \in DOMAIN questions /\ questions[questionId].creatorId = u
       THEN /\ chat' = MapSet(Deleted(chat, {m}), nextMessageId,
                              QuestionMessage(prompt, questionId))
            /\ nextMessageId' = nextMessageId + 1
            /\ deleteProgress' = MapSet(deleteProgress, questionId, done)
       ELSE /\ chat' = Deleted(chat, {m})
            /\ UNCHANGED nextMessageId
            /\ deleteProgress' = MapSet(deleteProgress, questionId, 0)
    /\ UNCHANGED <<questions, acks, answerTimers, explained>>
    /\ QuestionFrame

\* 'delete_confirm_1:<id>' clicked on a quiz message
handleDeleteConfirmation1(u, m) ==
    /\ Names(m, "quiz")
    /\ DeleteStep(u, m, Get(chat[m].question), 1, "delete_confirmation_1")

\* 'delete_confirm_2:<id>' clicked on the first confirmation
handleDeleteConfirmation2(u, m) ==
    /\ Names(m, "delete_confirmation_1")
    /\ DeleteStep(u, m, Get(chat[m].question), 2, "delete_confirmation_2")

\* 'delete_cancel:<id>' clicked on either confirmation: the clicked message
\* is deleted and, if the question exists, its quiz message is sent again
handleDeleteCancel(u, m) ==
    /\ Names(m, "delete_confirmation_1") \/ Names(m, "delete_confirmation_2")
    /\ nextMessageId <= MaxMessages
    /\ LET questionId == Get(chat[m].question) IN
       /\ IF questionId \in DOMAIN questions
          THEN /\ chat' = MapSet(Deleted(chat, {m}), nextMessageId,
                                 QuizMessage(questionId))
               /\ nextMessageId' = nextMessageId + 1
          ELSE /\ chat' = Deleted(chat, {m})
               /\ UNCHANGED nextMessageId
       /\ deleteProgress' = MapSet(deleteProgress, questionId, 0)
    /\ UNCHANGED <<questions, acks, answerTimers, explained>>
    /\ QuestionFrame

\* deleteQuestion without the creator check
deleteQuestion_AnyUser(u, m) ==
    /\ Names(m, "delete_confirmation_2")
    /\ nextMessageId <= MaxMessages
    /\ LET questionId == Get(chat[m].question) IN
       IF questionId \in DOMAIN questions
       THEN /\ questions' = MapDelete(questions, questionId)
            /\ chat' = MapSet(Deleted(chat, {m}), nextMessageId, Message("deleted"))
            /\ nextMessageId' = nextMessageId + 1
            /\ deleteProgress' = MapSet(deleteProgress, questionId, 0)
            /\ ret' = Call("deleteQuestion", u, <<TRUE>>)
       ELSE /\ chat' = Deleted(chat, {m})
            /\ deleteProgress' = MapSet(deleteProgress, questionId, 0)
            /\ ret' = Call("deleteQuestion", u, <<FALSE>>)
            /\ UNCHANGED <<questions, nextMessageId>>
    /\ UNCHANGED <<acks, answerTimers, explained>>
    /\ UNCHANGED <<userState, clock, timers, lastMenuMessage, lastSubjectMessage,
                   studySessions>>
    /\ UNCHANGED sessionVars

\* 'delete_question:<id>' clicked on the second confirmation; ret records the
\* call and what it returned
deleteQuestion(u, m) ==
    /\ Names(m, "delete_confirmation_2")
    /\ nextMessageId <= MaxMessages
    /\ LET questionId == Get(chat[m].question) IN
       IF questionId \in DOMAIN questions /\ questions[questionId].creatorId = u
       THEN /\ questions' = MapDelete(questions, questionId)
            /\ chat' = MapSet(Deleted(chat, {m}), nextMessageId, Message("deleted"))
            /\ nextMessageId' = nextMessageId + 1
            /\ deleteProgress' = MapSet(deleteProgress, questionId, 0)
            /\ ret' = Call("deleteQuestion", u, <<TRUE>>)
       ELSE /\ chat' = Deleted(chat, {m})
            /\ deleteProgress' = MapSet(deleteProgress, questionId, 0)
            /\ ret' = Call("deleteQuestion", u, <<FALSE>>)
            /\ UNCHANGED <<questions, nextMessageId>>
    /\ UNCHANGED <<acks, answerTimers, explained>>
    /\ UNCHANGED <<userState, clock, timers, lastMenuMessage, lastSubjectMessage,
                   studySessions>>
    /\ UNCHANGED sessionVars

----------------------------------------------------------------------------
(* Specifications *)

Init ==
    /\ activeSessions = EmptyMap
    /\ sessionMessages = EmptyMap
    /\ clock = 0
    /\ ret = NoCall
    /\ completed = [u \in Users |-> 0]
    /\ userState = EmptyMap
    /\ questions = EmptyMap
    /\ chat = EmptyMap
    /\ nextMessageId = 1
    /\ timers = {}
    /\ lastMenuMessage = Null
    /\ lastSubjectMessage = Null
    /\ studySessions = EmptyMap
    /\ acks = <<>>
    /\ answerTimers = <<>>
    /\ explained = <<>>
    /\ deleteProgress = EmptyMap

SessionOps(U, T, G) ==
    \/ \E u \in U, s \in Subjects, g \in G, t \in T : startSession(u, s, g, t)
    \/ \E u \in U, t \in T : endSession(u, t)
    \/ \E u \in U, t \in T : startBreak(u, t)
    \/ \E u \in U, t \in T : endBreak(u, t)
    \/ \E u \in U, st \in Statuses : updateSessionStatus(u, st)
    \/ \E u \in U, g \in G : setGoalTime(u, g)
    \/ \E u \in U, m \in MessageIds : addSessionMessage(u, m)

\* one user's session under all the store's public operations, fine clock
NextSession == SessionOps({"u1"}, Instants, Goals)
SpecSession == Init /\ [][NextSession]_vars

\* the store shared by all users, coarse clock
NextStore == SessionOps(Users, CoarseInstants, CoarseGoals)
SpecStore == Init /\ [][NextStore]_vars

\* a message the current step of the sender's draft accepts: the question
\* text, a choice text within the line limits, a valid answer letter, the
\* explanation
Accepted(u, msg) ==
    /\ HasDraft(u)
    /\ IsDefined(msg.text)
    /\ LET d == userState[u] IN
       CASE d.state = "WAITING_QUESTION" -> msg.text = Some(<<"a">>)
         [] d.state = "WAITING_CHOICES" -> ~ ChoiceCountRejected(Get(msg.text))
         [] d.state = "WAITING_CORRECT_ANSWER" ->
                /\ IsDefined(d.questionData.choices)
                /\ AnswerOf(Get(msg.text)) \in validAnswers(Get(d.questionData.choices))
         [] d.state = "WAITING_EXPLANATION" -> msg.text = Some(<<"a">>)
         [] OTHER -> FALSE

\* the authoring workflow of one author who opens the menu once, types only
\* what the current step accepts and may click any button that is displayed
NextQuiz ==
    \/ (chat = EmptyMap /\ nextMessageId = 1 /\ handleStart("u1"))
    \/ \E m \in DOMAIN chat :
           nextMessageId <= QuizMessages /\ handleCreateQuestion("u1", m)
    \/ \E m \in DOMAIN chat, s \in {"CC"} :
           /\ nextMessageId <= QuizMessages
           /\ HasDraft("u1")
           /\ userState["u1"].state = "WAITING_SUBJECT"
           /\ handleSelectSubject("u1", m, s)
    \/ \E msg \in Messages :
           /\ nextMessageId < QuizMessages
           /\ Accepted("u1", msg)
           /\ handleQuestionCreation("u1", msg, 0)
    \/ \E m \in DOMAIN chat :
           nextMessageId <= QuizMessages /\ handleConfirmChoices("u1", m)
    \/ \E m \in DOMAIN chat :
           nextMessageId <= QuizMessages /\ handleRetryChoices("u1", m)
    \/ \E m \in DOMAIN chat :
           nextMessageId <= QuizMessages /\ handleConfirmAnswer("u1", m)
    \/ \E m \in DOMAIN chat :
           nextMessageId <= QuizMessages /\ handleRetryAnswer("u1", m)

SpecQuiz == Init /\ [][NextQuiz]_vars

\* the menu, the subject picker and the cancel button: the author goes no
\* further than typing the question text
NextMenu ==
    \/ (chat = EmptyMap /\ nextMessageId = 1 /\ handleStart("u1"))
    \/ \E m \in DOMAIN chat :
           nextMessageId <= MenuMessages /\ handleCreateQuestion("u1", m)
    \/ \E m \in DOMAIN chat, s \in Subjects :
           nextMessageId <= MenuMessages /\ handleSelectSubject("u1", m, s)
    \/ \E msg \in Messages :
           /\ nextMessageId < MenuMessages
           /\ Accepted("u1", msg)
           /\ userState["u1"].state = "WAITING_QUESTION"
           /\ handleQuestionCreation("u1", msg, 0)
    \/ \E m \in DOMAIN chat :
           nextMessageId <= MenuMessages /\ handleCancelQuestion("u1", m)
    \/ \E m \in timers : cancelNoticeTimeout(m)

SpecMenu == Init /\ [][NextMenu]_vars


\* the one input an author who makes no mistake types at each step
Straight(u, msg) ==
    /\ HasDraft(u)
    /\ LET d == userState[u] IN
       CASE d.state = "WAITING_QUESTION" -> msg = TextMessage(<<"a">>)
         [] d.state = "WAITING_CHOICES" ->
                /\ msg = TextMessage(<<"x", " y", "z">>)
                /\ ~ IsDefined(d.questionData.tempChoices)
         [] d.state = "WAITING_CORRECT_ANSWER" ->
                /\ msg = TextMessage(<<"a">>)
                /\ ~ IsDefined(d.questionData.tempAnswer)
         [] d.state = "WAITING_EXPLANATION" -> msg = TextMessage(<<"a">>)
         [] OTHER -> FALSE

MenuDisplayed == \E m \in DOMAIN chat : chat[m].kind = "menu"

\* two authors, each sending /start when no menu is displayed and then
\* going straight through the workflow
NextAuthors ==
    \/ \E u \in Users :
           /\ ~ MenuDisplayed
           /\ ~ HasDraft(u)
           /\ \A q \in DOMAIN questions : questions[q].creatorId # u
           /\ handleStart(u)
    \/ \E u \in Users, m \in DOMAIN chat :
           chat[m].kind = "menu" /\ ~ HasDraft(u) /\ handleCreateQuestion(u, m)
    \/ \E u \in Users, m \in DOMAIN chat :
           /\ HasDraft(u)
           /\ userState[u].state = "WAITING_SUBJECT"
           /\ handleSelectSubject(u, m, "CC")
    \/ \E u \in Users, msg \in Messages, t \in CoarseInstants :
           /\ Straight(u, msg)
           /\ t = clock \/ userState[u].state = "WAITING_EXPLANATION"
           /\ handleQuestionCreation(u, msg, t)
    \/ \E u \in Users, m \in DOMAIN chat : HasDraft(u) /\ handleConfirmChoices(u, m)
    \/ \E u \in Users, m \in DOMAIN chat : HasDraft(u) /\ handleConfirmAnswer(u, m)

SpecAuthors == Init /\ [][NextAuthors]_vars

\* the answer buttons a quiz message displays
AnswerButtons(m) ==
    IF Get(chat[m].question) \in DOMAIN questions
    THEN validAnswers(Get(questions[Get(chat[m].question)].choices))
    ELSE {"a"}

\* room for a new message besides the explanations still to be posted
Room == nextMessageId + Len(answerTimers) <= QuestionMessages

\* u1 goes straight through the workflow; then both users click the buttons
\* of the published question
NextQuestion ==
    \/ (chat = EmptyMap /\ nextMessageId = 1 /\ handleStart("u1"))
    \/ \E m \in DOMAIN chat :
           Room /\ chat[m].kind = "menu" /\ handleCreateQuestion("u1", m)
    \/ \E m \in DOMAIN chat :
           /\ Room
           /\ HasDraft("u1")
           /\ userState["u1"].state = "WAITING_SUBJECT"
           /\ handleSelectSubject("u1", m, "CC")
    \/ \E msg \in Messages :
           /\ nextMessageId + Len(answerTimers) < QuestionMessages
           /\ Straight("u1", msg)
           /\ handleQuestionCreation("u1", msg, 0)
    \/ \E m \in DOMAIN chat : Room /\ HasDraft("u1") /\ handleConfirmChoices("u1", m)
    \/ \E m \in DOMAIN chat : Room /\ HasDraft("u1") /\ handleConfirmAnswer("u1", m)
    \/ \E u \in Users, m \in DOMAIN chat :
           /\ nextMessageId + Len(answerTimers) < QuestionMessages
           /\ Names(m, "quiz")
           /\ \E answer \in AnswerButtons(m) : handleAnswer(u, m, answer)
    \/ answerTimeout
    \/ \E u \in Users, m \in DOMAIN chat : handleDoneReading(u, m)
    \/ \E u \in Users, m \in DOMAIN chat : Room /\ handleAddConfirmation(u, m)
    \/ \E u \in Users, m \in DOMAIN chat : handleAddCancel(u, m)
    \/ \E m \in DOMAIN chat : Room /\ handleStartNewQuestion("u1", m)
    \/ \E u \in Users, m \in DOMAIN chat : Room /\ handleDeleteConfirmation1(u, m)
    \/ \E u \in Users, m \in DOMAIN chat : Room /\ handleDeleteConfirmation2(u, m)
    \/ \E u \in Users, m \in DOMAIN chat : Room /\ handleDeleteCancel(u, m)
    \/ \E u \in Users, m \in DOMAIN chat : Room /\ deleteQuestion(u, m)

SpecQuestion == Init /\ [][NextQuestion]_vars

\* every explanation timeout fires
SpecQuestionFair == SpecQuestion /\ WF_vars(answerTimeout)

\* one user's session under startSession / startBreak / endBreak only
NextBreaks ==
    \/ \E s \in Subjects, g \in Goals, t \in Instants : startSession("u1", s, g, t)
    \/ \E t \in Instants : startBreak("u1", t)
    \/ \E t \in Instants : endBreakCounted("u1", t)

SpecBreaks == Init /\ [][NextBreaks]_vars

----------------------------------------------------------------------------
(* Properties of the session store *)

HasSession(u) == u \in DOMAIN activeSessions

\* C1: under startSession / startBreak / endBreak, a session's
\* totalBreakMinutes is the sum of the durations logged in breaks, and breaks
\* has one entry per endBreak call made while the session was on break
\* (ignored startBreak / endBreak calls add none).
C1_BreakLogMatchesTotals ==
    \A u \in DOMAIN activeSessions :
        /\ activeSessions[u].totalBreakMinutes = SumDurations(activeSessions[u].breaks)
        /\ Len(activeSessions[u].breaks) = completed[u]

C1_Witness ==
    \E u \in DOMAIN activeSessions :
        /\ Len(activeSessions[u].breaks) >= 2
        /\ activeSessions[u].breaks[1].duration > 0
        /\ activeSessions[u].breaks[2].duration > 0

\* C2: every session with status 'break' has a non-null currentBreak and
\* every session with status 'studying' has a null currentBreak (a Map holds
\* at most one session per user id).
C2_StatusMatchesCurrentBreak ==
    \A u \in DOMAIN activeSessions :
        /\ activeSessions[u].status = "break" => activeSessions[u].currentBreak # Null
        /\ activeSessions[u].status = "studying" => activeSessions[u].currentBreak = Null

\* C3: endSession on an existing session returns actualTime = whole minutes
\* from startTime to now minus totalBreakMinutes, breakTime = totalBreakMinutes,
\* totalTime = actualTime + breakTime, percentage = round(actualTime/goal*100)
\* for goal > 0 and 100 for goal 0; goal 60, 90 minutes and one 10-minute
\* break give 80, 10 and 133.
C3_EndSessionStats ==
    [][\A u \in Users :
        (HasSession(u) /\ ret'.op = "endSession" /\ ret'.user = u /\ ret'.value # <<>>) =>
            LET s == activeSessions[u]
                st == ret'.value[1]
                ticks == clock' - s.startTime
                elapsed == st.actualTime + s.totalBreakMinutes
                g == s.goalTimeMinutes
            IN  /\ elapsed * MinuteTicks <= ticks
                /\ ticks < (elapsed + 1) * MinuteTicks
                /\ st.breakTime = s.totalBreakMinutes
                /\ st.totalTime = st.actualTime + st.breakTime
                /\ g = 0 => st.percentage = 100
                /\ g > 0 => /\ 2 * st.percentage * g <= (200 * st.actualTime) + g
                            /\ (200 * st.actualTime) + g < 2 * (st.percentage + 1) * g
                /\ (g = 60 /\ elapsed = 90 /\ Len(s.breaks) = 1 /\ s.breaks[1].duration = 10
                        /\ s.totalBreakMinutes = 10) =>
                       (st.actualTime = 80 /\ st.breakTime = 10 /\ st.percentage = 133)
      ]_vars

C3_Witness ==
    /\ ret.op = "endSession"
    /\ ret.value # <<>>
    /\ ret.value[1].goalTime = 60
    /\ ret.value[1].actualTime = 80
    /\ ret.value[1].breakTime = 10
    /\ ret.value[1].totalTime = 90
    /\ ret.value[1].percentage = 133

\* C4: endSession on an existing session returns a snapshot and removes the
\* session; an endSession for the same user right after it returns null.
C4_EndSessionTwice ==
    [][\A u \in Users :
        (ret'.op = "endSession" /\ ret'.user = u) =>
            /\ ~ (u \in DOMAIN activeSessions')
            /\ HasSession(u) => ret'.value # <<>>
            /\ (ret.op = "endSession" /\ ret.user = u) => ret'.value = <<>>
      ]_vars

C4_Witness ==
    /\ ret.op = "endSession"
    /\ ret.value = <<>>
    /\ clock > 0
    /\ ~ HasSession(ret.user)

\* C5: startBreak on a session that is not 'studying', endBreak on a session
\* that is not on 'break', and startBreak / endBreak / setGoalTime for a user
\* without a session change nothing in the store and create no session.
C5_IgnoredCallsChangeNothing ==
    [][\A u \in Users :
        /\ ((\E t \in CoarseInstants : startBreak(u, t))
              /\ ~ (HasSession(u) /\ activeSessions[u].status = "studying"))
            => UNCHANGED <<activeSessions, sessionMessages>>
        /\ ((\E t \in CoarseInstants : endBreak(u, t))
              /\ ~ (HasSession(u) /\ activeSessions[u].status = "break"))
            => UNCHANGED <<activeSessions, sessionMessages>>
        /\ ((\E g \in CoarseGoals : setGoalTime(u, g)) /\ ~ HasSession(u))
            => UNCHANGED <<activeSessions, sessionMessages>>
      ]_vars

C5_Witness ==
    \E u \in DOMAIN activeSessions, v \in Users :
        /\ activeSessions[u].status = "break"
        /\ activeSessions[u].currentBreak # Null
        /\ activeSessions[u].currentBreak < clock
        /\ ~ HasSession(v)

\* C6: after startSession(u, subject, goal) the user has a 'studying' session
\* with that subject and goal, no breaks, totalBreakMinutes 0, no break in
\* progress and an empty tracked-message list, whatever was there before; no
\* other user's session or message list changes.
C6_StartSessionResets ==
    [][\A u \in Users, subject \in Subjects, g \in CoarseGoals, t \in CoarseInstants :
        startSession(u, subject, g, t) =>
            /\ u \in DOMAIN activeSessions'
            /\ activeSessions'[u].status = "studying"
            /\ activeSessions'[u].subject = subject
            /\ activeSessions'[u].goalTimeMinutes = g
            /\ activeSessions'[u].breaks = <<>>
            /\ activeSessions'[u].totalBreakMinutes = 0
            /\ activeSessions'[u].currentBreak = Null
            /\ ~ (u \in DOMAIN sessionMessages')
            /\ \A v \in Users \ {u} :
                /\ (v \in DOMAIN activeSessions') = HasSession(v)
                /\ HasSession(v) => activeSessions'[v] = activeSessions[v]
                /\ (v \in DOMAIN sessionMessages') = (v \in DOMAIN sessionMessages)
                /\ v \in DOMAIN sessionMessages => sessionMessages'[v] = sessionMessages[v]
      ]_vars

C6_Witness ==
    \E u \in DOMAIN activeSessions, v \in DOMAIN activeSessions :
        /\ u # v
        /\ clock > 0
        /\ activeSessions[u].startTime = clock
        /\ activeSessions[u].status = "studying"
        /\ activeSessions[u].breaks = <<>>
        /\ ~ (u \in DOMAIN sessionMessages)
        /\ activeSessions[v].status = "break"
        /\ v \in DOMAIN sessionMessages

----------------------------------------------------------------------------
(* Properties of the authoring workflow *)

Labels(choices) == {choices[i].label : i \in 1..Len(choices)}

\* the steps of a draft, in the order of the workflow
Rank(state) ==
    CASE state = "WAITING_SUBJECT" -> 1
      [] state = "WAITING_QUESTION" -> 2
      [] state = "WAITING_CHOICES" -> 3
      [] state = "WAITING_CORRECT_ANSWER" -> 4
      [] state = "WAITING_EXPLANATION" -> 5

\* the field a draft must hold to be in a state
Supplied(d) ==
    CASE d.state = "WAITING_SUBJECT" -> TRUE
      [] d.state = "WAITING_QUESTION" -> IsDefined(d.questionData.subject)
      [] d.state = "WAITING_CHOICES" -> IsDefined(d.questionData.question)
      [] d.state = "WAITING_CORRECT_ANSWER" -> IsDefined(d.questionData.choices)
      [] d.state = "WAITING_EXPLANATION" -> IsDefined(d.questionData.correctAnswer)

\* C7: no question is stored as published with fewer than 2 or more than 5
\* choices (the choices that reach confirmation and publication are the
\* non-empty lines of the typed text, accepted only when there are 2 to 5 of
\* them).
C7_PublishedChoiceCount ==
    \A q \in DOMAIN questions :
        /\ IsDefined(questions[q].choices)
        /\ Len(Get(questions[q].choices)) >= 2
        /\ Len(Get(questions[q].choices)) <= 5

\* C8: every published question's correctAnswer is the label of one of its
\* published choices, whatever the sequence of texts, confirm and retry clicks
\* (clicks on earlier confirmation messages still displayed included).
C8_CorrectAnswerIsALabel ==
    \A q \in DOMAIN questions :
        /\ IsDefined(questions[q].choices)
        /\ IsDefined(questions[q].correctAnswer)
        /\ Get(questions[q].correctAnswer) \in Labels(Get(questions[q].choices))

\* C9: a draft's state changes only one step forward along WAITING_SUBJECT,
\* WAITING_QUESTION, WAITING_CHOICES, WAITING_CORRECT_ANSWER,
\* WAITING_EXPLANATION, published, with the field of the step it leaves
\* supplied, or one step back by a retry to WAITING_CHOICES or
\* WAITING_CORRECT_ANSWER; a new draft starts in WAITING_SUBJECT.
C9_OneStepAtATime ==
    [][\A u \in Users :
        /\ (HasDraft(u) /\ u \in DOMAIN userState'
              /\ userState'[u].state # userState[u].state) =>
            \/ userState'[u] = [NewDraft EXCEPT !.tempMessages = userState'[u].tempMessages]
            \/ /\ Rank(userState'[u].state) = Rank(userState[u].state) + 1
               /\ Supplied(userState'[u])
            \/ /\ Rank(userState'[u].state) = Rank(userState[u].state) - 1
               /\ userState'[u].state \in {"WAITING_CHOICES", "WAITING_CORRECT_ANSWER"}
        /\ (~ HasDraft(u) /\ u \in DOMAIN userState') =>
               userState'[u].state = "WAITING_SUBJECT"
        /\ (HasDraft(u) /\ questions' # questions) =>
               userState[u].state = "WAITING_EXPLANATION"
      ]_vars

\* C10: typed choices and a typed answer letter are only pending: choices is
\* set and the state advances to WAITING_CORRECT_ANSWER only on
\* confirm_choices, correctAnswer is set and the state advances to
\* WAITING_EXPLANATION only on confirm_answer; retry_choices and retry_answer
\* discard the pending value and leave the draft in the same state; a confirm
\* with no pending value changes no draft.
C10_PendingUntilConfirmed ==
    [][\A u \in Users :
        (HasDraft(u) /\ u \in DOMAIN userState'
           /\ userState'[u].state # "WAITING_SUBJECT") =>
            LET d == userState[u]
                e == userState'[u]
            IN  /\ (\/ e.questionData.choices # d.questionData.choices
                    \/ (e.state = "WAITING_CORRECT_ANSWER" /\ Rank(d.state) < 4)) =>
                       /\ \E m \in DOMAIN chat : handleConfirmChoices(u, m)
                       /\ e.questionData.choices = d.questionData.tempChoices
                /\ (\/ e.questionData.correctAnswer # d.questionData.correctAnswer
                    \/ (e.state = "WAITING_EXPLANATION" /\ Rank(d.state) < 5)) =>
                       /\ \E m \in DOMAIN chat : handleConfirmAnswer(u, m)
                       /\ e.questionData.correctAnswer = d.questionData.tempAnswer
                /\ (\E m \in DOMAIN chat : handleRetryChoices(u, m)) =>
                       /\ ~ IsDefined(e.questionData.tempChoices)
                       /\ e.state = d.state
                /\ (\E m \in DOMAIN chat : handleRetryAnswer(u, m)) =>
                       /\ ~ IsDefined(e.questionData.tempAnswer)
                       /\ e.state = d.state
                /\ ((\E m \in DOMAIN chat : handleConfirmChoices(u, m))
                      /\ ~ IsDefined(d.questionData.tempChoices)) => e = d
                /\ ((\E m \in DOMAIN chat : handleConfirmAnswer(u, m))
                      /\ ~ IsDefined(d.questionData.tempAnswer)) => e = d
      ]_vars

\* a draft of u in WAITING_EXPLANATION is published by this step
Publishes(u) ==
    /\ HasDraft(u)
    /\ userState[u].state = "WAITING_EXPLANATION"
    /\ ~ (u \in DOMAIN userState')

\* C11: every publication stores its question under an id that no other
\* stored question has: the questions stored before are all still stored,
\* unchanged, and there is one more (also when two users publish at the same
\* clock reading).
C11_PublicationKeepsQuestions ==
    [][\A u \in Users :
        Publishes(u) =>
            /\ \A q \in DOMAIN questions :
                   q \in DOMAIN questions' /\ questions'[q] = questions[q]
            /\ Cardinality(DOMAIN questions') = Cardinality(DOMAIN questions) + 1
      ]_vars

\* message m names a stored question that u did not create
NotCreator(u, m) ==
    /\ IsDefined(chat[m].question)
    /\ Get(chat[m].question) \in DOMAIN questions
    /\ questions[Get(chat[m].question)].creatorId # u

\* C12: a delete step (delete_confirm_1, delete_confirm_2, delete_question)
\* clicked by a user who is not the question's creator changes nothing: the
\* question stays stored, no prompt is sent and no message, the clicked one
\* included, is deleted.
C12_NonCreatorDeleteChangesNothing ==
    [][\A u \in Users, m \in DOMAIN chat :
        (/\ NotCreator(u, m)
         /\ \/ handleDeleteConfirmation1(u, m)
            \/ handleDeleteConfirmation2(u, m)
            \/ deleteQuestion(u, m))
        => /\ questions' = questions
           /\ chat' = chat
           /\ nextMessageId' = nextMessageId
      ]_vars

\* C13: a question leaves the store only by its creator's delete_question
\* click on the second confirmation, after the creator's delete_confirm_1 and
\* delete_confirm_2 clicks for that question, each on the prompt of the step
\* before; delete_cancel on either confirmation keeps the question and sends
\* its quiz message again.
C13_DeleteNeedsThreeSteps ==
    /\ [](\A m \in DOMAIN chat :
            /\ chat[m].kind = "delete_confirmation_1" =>
                   Progress(Get(chat[m].question)) = 1
            /\ chat[m].kind = "delete_confirmation_2" =>
                   Progress(Get(chat[m].question)) = 2)
    /\ [][/\ \A q \in DOMAIN questions :
               ~ (q \in DOMAIN questions') =>
                   /\ Progress(q) = 2
                   /\ ret' = Call("deleteQuestion", questions[q].creatorId, <<TRUE>>)
                   /\ \E m \in (DOMAIN chat) \ (DOMAIN chat') :
                          chat[m] = QuestionMessage("delete_confirmation_2", q)
          /\ \A u \in Users, m \in DOMAIN chat :
               (/\ handleDeleteCancel(u, m)
                /\ Get(chat[m].question) \in DOMAIN questions) =>
                   /\ questions' = questions
                   /\ ~ (m \in DOMAIN chat')
                   /\ \E n \in (DOMAIN chat') \ (DOMAIN chat) :
                          chat'[n] = QuizMessage(Get(chat[m].question))
        ]_vars

\* the creator has deleted the question after cancelling once
C13_Witness ==
    /\ questions = EmptyMap
    /\ ret = Call("deleteQuestion", "u1", <<TRUE>>)
    /\ \E m \in DOMAIN chat : chat[m].kind = "deleted" /\ m >= 18

----------------------------------------------------------------------------
(* Properties of answering *)

Last(seq) == seq[Len(seq)]

\* this step shows an alert for an answer click
Acknowledges == Len(acks') = Len(acks) + 1

\* this step posts an explanation message
Explains == Len(explained') = Len(explained) + 1

\* the choice of a question whose label is its correctAnswer
ChoiceOfCorrectAnswer(question) ==
    LET cs == Get(question.choices)
    IN  cs[CHOOSE i \in 1..Len(cs) : cs[i].label = Get(question.correctAnswer)]

\* the alerts are correct exactly for the question's correctAnswer, and the
\* explanations follow the alerts in order
AnswersAcknowledged ==
    /\ Acknowledges =>
           LET a == Last(acks') IN
           /\ a.questionId \in DOMAIN questions
           /\ a.isCorrect = (Some(a.answer) = questions[a.questionId].correctAnswer)
    /\ Explains =>
           LET e == Last(explained') IN
           /\ Len(explained') <= Len(acks)
           /\ e.user = acks[Len(explained')].user
           /\ e.questionId = acks[Len(explained')].questionId
           /\ e.isCorrect = acks[Len(explained')].isCorrect
           /\ \E m \in (DOMAIN chat') \ (DOMAIN chat) :
                  chat'[m] = QuestionMessage("explanation", e.questionId)

\* C14 (as stated): every answer click on an existing question is
\* acknowledged as correct exactly when the label is the question's
\* correctAnswer, and the explanation message posted after the delay holds the
\* text of the correct choice and the stored explanation, after a correct
\* answer as after a wrong one.
C14_ExplanationNamesChoice ==
    [][/\ AnswersAcknowledged
       /\ (Explains /\ Last(explained').stored) =>
              LET e == Last(explained')
                  question == questions[e.questionId]
              IN  /\ e.explanation = question.explanation
                  /\ e.correctChoice = Some(ChoiceOfCorrectAnswer(question))
      ]_vars

\* C14 (amended): as above, but the explanation message holds the text of the
\* correct choice only after a wrong answer; after a correct answer it holds
\* the stored explanation alone.
C14_ExplanationAfterAnswer ==
    [][/\ AnswersAcknowledged
       /\ (Explains /\ Last(explained').stored) =>
              LET e == Last(explained')
                  question == questions[e.questionId]
              IN  /\ e.explanation = question.explanation
                  /\ ~ e.isCorrect =>
                         e.correctChoice = Some(ChoiceOfCorrectAnswer(question))
                  /\ e.isCorrect => e.correctChoice = Undefined
      ]_vars

\* one correct and one wrong answer have been explained
C14_Witness ==
    /\ Len(explained) = 2
    /\ explained[1].isCorrect
    /\ ~ explained[2].isCorrect
    /\ explained[2].correctChoice # Undefined
    /\ explained[1].user # explained[2].user

\* C15: the explanation timeout checks that the question still exists when
\* it fires: no explanation message is posted for a question that was deleted
\* after the answer click.
C15_NoExplanationAfterDelete ==
    [][Explains => Last(explained').questionId \in DOMAIN questions]_vars

\* C16: answering never changes or locks a question: every answer click on a
\* stored question, by any user and also while earlier explanation timeouts
\* are pending, shows its alert and sets its own timeout; the alert and the
\* explanation leave the store as it was; every click is followed by exactly
\* one explanation message, which is eventually posted.
C16_EveryClickExplained ==
    /\ [][/\ (Acknowledges \/ Explains) => questions' = questions
          /\ \A u \in Users, m \in DOMAIN chat :
               (/\ Names(m, "quiz")
                /\ Get(chat[m].question) \in DOMAIN questions
                /\ \E answer \in AnswerButtons(m) : handleAnswer(u, m, answer)) =>
                   /\ Acknowledges
                   /\ Last(acks').user = u
                   /\ Len(answerTimers') = Len(answerTimers) + 1
        ]_vars
    /\ [](Len(explained) + Len(answerTimers) = Len(acks))
    /\ \A n \in 1..MaxAnswers : (Len(acks) >= n) ~> (Len(explained) >= n)

\* two users clicked while both explanations were still pending
C16_Witness ==
    /\ Len(answerTimers) = 2
    /\ answerTimers[1].user # answerTimers[2].user
    /\ answerTimers[1].questionId = answerTimers[2].questionId
    /\ answerTimers[1].questionId \in DOMAIN questions

----------------------------------------------------------------------------
(* handlers.js with sessionManager.js: the study flow with a goal step *)

\* the bot's own user id: callbackQuery.message.from of a message it sent
Bot == "bot"

\* SessionManager.addSessionMessage on a message list map
Tracked(sm, u, messageId) ==
    MapSet(sm, u, Append(IF u \in DOMAIN sm THEN sm[u] ELSE <<>>, messageId))

GoalFrame ==
    /\ UNCHANGED <<questions, timers, lastMenuMessage, studySessions>>
    /\ UNCHANGED questionVars

\* ACTIONS.START_STUDYING: the clicker's tracked messages are deleted and the
\* goal question is sent; handleStudyGoal tracks it under msg.from.id, the
\* sender of the clicked message
handleStartStudyingFlow(u, m) ==
    /\ Displays(m, "start_studying")
    /\ nextMessageId <= MaxMessages
    /\ chat' = MapSet(Deleted(chat, Range(getSessionMessages(u))), nextMessageId,
                      Message("goal"))
    /\ sessionMessages' = Tracked(MapDelete(sessionMessages, u), Bot, nextMessageId)
    /\ nextMessageId' = nextMessageId + 1
    /\ ret' = NoCall
    /\ UNCHANGED <<activeSessions, completed, clock, userState, lastSubjectMessage>>
    /\ GoalFrame

\* ACTIONS.SKIP_GOAL: the subject picker is sent and remembered
handleSkipGoal(u, m) ==
    /\ Displays(m, "skip_goal")
    /\ nextMessageId <= MaxMessages
    /\ chat' = MapSet(chat, nextMessageId, Message("study_subject"))
    /\ lastSubjectMessage' = nextMessageId
    /\ nextMessageId' = nextMessageId + 1
    /\ ret' = NoCall
    /\ UNCHANGED <<activeSessions, sessionMessages, completed, clock, userState>>
    /\ GoalFrame

\* ACTIONS.CREATE_QUESTION: a draft is started and the prompt for the
\* question is sent and tracked
handleQuestionCreationClick(u, m) ==
    /\ Displays(m, "create_question")
    /\ nextMessageId <= MaxMessages
    /\ userState' = startQuestionCreation(userState, u)
    /\ chat' = MapSet(chat, nextMessageId, Message("prompt"))
    /\ sessionMessages' = Tracked(sessionMessages, u, nextMessageId)
    /\ nextMessageId' = nextMessageId + 1
    /\ ret' = NoCall
    /\ UNCHANGED <<activeSessions, completed, clock, lastSubjectMessage>>
    /\ GoalFrame

\* select_subject:<subject>: a session is started, whatever draft the user has
handleSubjectSelection(u, m, subject, t) ==
    /\ m \in DOMAIN chat
    /\ Button("select_subject", subject) \in Buttons(chat[m])
    /\ nextMessageId <= MaxMessages
    /\ t >= clock
    /\ activeSessions' = MapSet(activeSessions, u, NewSession(subject, 0, t))
    /\ clock' = t
    /\ completed' = [completed EXCEPT ![u] = 0]
    /\ chat' = MapSet(chat, nextMessageId, Message("studying"))
    /\ sessionMessages' = Tracked(MapDelete(sessionMessages, u), u, nextMessageId)
    /\ nextMessageId' = nextMessageId + 1
    /\ ret' = NoCall
    /\ UNCHANGED <<userState, lastSubjectMessage>>
    /\ GoalFrame

\* ACTIONS.START_BREAK: startBreak, then 'Break started' is sent and tracked
handleStartBreak(u, m, t) ==
    /\ Displays(m, "start_break")
    /\ nextMessageId <= MaxMessages
    /\ t >= clock
    /\ IF u \in DOMAIN activeSessions /\ activeSessions[u].status = "studying"
       THEN /\ Len(activeSessions[u].breaks) < MaxBreaks
            /\ activeSessions' = [activeSessions EXCEPT ![u] = StartBreakSession(@, t)]
            /\ clock' = t
       ELSE UNCHANGED <<activeSessions, clock>>
    /\ chat' = MapSet(chat, nextMessageId, Message("break"))
    /\ sessionMessages' = Tracked(sessionMessages, u, nextMessageId)
    /\ nextMessageId' = nextMessageId + 1
    /\ ret' = NoCall
    /\ UNCHANGED <<completed, userState, lastSubjectMessage>>
    /\ GoalFrame

\* ACTIONS.END_BREAK: endBreak, then 'Break ended' is sent and tracked
handleEndBreak(u, m, t) ==
    /\ Displays(m, "end_break")
    /\ nextMessageId <= MaxMessages
    /\ t >= clock
    /\ IF /\ u \in DOMAIN activeSessions
          /\ activeSessions[u].status = "break"
          /\ activeSessions[u].currentBreak # Null
       THEN /\ activeSessions' = [activeSessions EXCEPT ![u] = EndBreakSession(@, t)]
            /\ clock' = t
       ELSE UNCHANGED <<activeSessions, clock>>
    /\ chat' = MapSet(chat, nextMessageId, Message("studying"))
    /\ sessionMessages' = Tracked(sessionMessages, u, nextMessageId)
    /\ nextMessageId' = nextMessageId + 1
    /\ ret' = NoCall
    /\ UNCHANGED <<completed, userState, lastSubjectMessage>>
    /\ GoalFrame

\* ACTIONS.END_SESSION: with a session, endSession and five messages (the
\* second, fourth and fifth are tracked); without one, nothing
handleEndSession(u, m, t) ==
    /\ Displays(m, "end_session")
    /\ t >= clock
    /\ IF u \in DOMAIN activeSessions
       THEN /\ nextMessageId + 4 <= MaxMessages
            /\ ret' = Call("endSession", u, <<EndSessionStats(activeSessions[u], t)>>)
            /\ activeSessions' = MapDelete(activeSessions, u)
            /\ clock' = t
            /\ chat' = [x \in (DOMAIN chat) \cup (nextMessageId .. nextMessageId + 4) |->
                           IF x \in DOMAIN chat THEN chat[x]
                           ELSE IF x = nextMessageId + 4 THEN Message("design")
                           ELSE Message("summary")]
            /\ sessionMessages' =
                   Tracked(Tracked(Tracked(sessionMessages, u, nextMessageId + 1),
                                   u, nextMessageId + 3), u, nextMessageId + 4)
            /\ nextMessageId' = nextMessageId + 5
       ELSE /\ ret' = NoCall
            /\ UNCHANGED <<activeSessions, clock, chat, sessionMessages, nextMessageId>>
    /\ UNCHANGED <<completed, userState, lastSubjectMessage>>
    /\ GoalFrame

\* sessionManager.getCurrentStats(userId) at instant t: null without a session
getCurrentStats(u, t) ==
    IF u \notin DOMAIN activeSessions THEN Undefined
    ELSE LET session == activeSessions[u]
             totalStudyMinutes == calculateStudyTime(session, t) IN
         Some([subject |-> session.subject,
               goalTime |-> session.goalTimeMinutes,
               actualTime |-> totalStudyMinutes,
               breakTime |-> session.totalBreakMinutes,
               totalTime |-> totalStudyMinutes + session.totalBreakMinutes,
               startTime |-> session.startTime,
               currentTime |-> t,
               breakCount |-> Len(session.breaks),
               percentage |-> Percentage(session, totalStudyMinutes)])

\* select_design:<n>: without current stats nothing happens; with them the
\* image is generated from them and sent with the share buttons, tracked
handleSelectDesign(u, m, t) ==
    /\ Displays(m, "select_design")
    /\ nextMessageId <= MaxMessages
    /\ t >= clock
    /\ LET stats == getCurrentStats(u, t) IN
       IF ~ IsDefined(stats)
       THEN /\ ret' = Call("getCurrentStats", u, Undefined)
            /\ UNCHANGED <<clock, chat, sessionMessages, nextMessageId>>
       ELSE /\ ret' = Call("generateDesign", u, stats)
            /\ clock' = t
            /\ chat' = MapSet(chat, nextMessageId, Message("share"))
            /\ sessionMessages' = Tracked(sessionMessages, u, nextMessageId)
            /\ nextMessageId' = nextMessageId + 1
    /\ UNCHANGED <<activeSessions, completed, userState, lastSubjectMessage>>
    /\ GoalFrame

\* /start of this dispatcher: the previous menu is deleted, a new one is sent
handleStartMenu(u) ==
    /\ nextMessageId <= MaxMessages
    /\ chat' = MapSet(Deleted(chat, {lastMenuMessage}), nextMessageId, Message("menu"))
    /\ lastMenuMessage' = nextMessageId
    /\ nextMessageId' = nextMessageId + 1
    /\ UNCHANGED <<userState, questions, clock, timers, lastSubjectMessage, studySessions>>
    /\ UNCHANGED <<storeVars, questionVars>>

\* the clicks of two users on the menu, the goal step, the subject picker and
\* the session keyboards
NextGoal ==
    \/ \E u \in Users : nextMessageId <= GoalMessages /\ handleStartMenu(u)
    \/ \E u \in Users, m \in DOMAIN chat :
           nextMessageId <= GoalMessages /\ handleStartStudyingFlow(u, m)
    \/ \E u \in Users, m \in DOMAIN chat :
           nextMessageId <= GoalMessages /\ handleSkipGoal(u, m)
    \/ \E u \in Users, m \in DOMAIN chat :
           nextMessageId <= GoalMessages /\ handleQuestionCreationClick(u, m)
    \/ \E u \in Users, m \in DOMAIN chat, s \in Subjects, t \in CoarseInstants :
           nextMessageId <= GoalMessages /\ handleSubjectSelection(u, m, s, t)
    \/ \E u \in Users, m \in DOMAIN chat, t \in CoarseInstants :
           nextMessageId <= GoalMessages /\ handleStartBreak(u, m, t)
    \/ \E u \in Users, m \in DOMAIN chat, t \in CoarseInstants :
           nextMessageId <= GoalMessages /\ handleEndBreak(u, m, t)
    \/ \E u \in Users, m \in DOMAIN chat, t \in CoarseInstants :
           nextMessageId <= GoalMessages /\ handleEndSession(u, m, t)
    \/ \E u \in Users, m \in DOMAIN chat, t \in CoarseInstants :
           nextMessageId <= GoalMessages + 5 /\ handleSelectDesign(u, m, t)

SpecGoal == Init /\ [][NextGoal]_vars

----------------------------------------------------------------------------
(* Properties of the dispatcher *)

\* a click of user u on a select_subject:<subject> button
SubjectClick(u, subject) ==
    \E m \in DOMAIN chat :
        \/ handleSelectSubject(u, m, subject)
        \/ \E t \in CoarseInstants : handleSubjectSelection(u, m, subject, t)

\* C17: a select_subject click of a user whose draft waits for its subject
\* sets the draft's subject, advances it to WAITING_QUESTION and starts no
\* study session; a click of any other user starts a study session on the
\* subject and changes no draft.
C17_SubjectClickRoutedByDraft ==
    [][\A u \in Users, s \in Subjects :
          SubjectClick(u, s) =>
              IF HasDraft(u) /\ userState[u].state = "WAITING_SUBJECT"
              THEN /\ userState'[u].questionData.subject = Some(s)
                   /\ userState'[u].state = "WAITING_QUESTION"
                   /\ activeSessions' = activeSessions
                   /\ studySessions' = studySessions
              ELSE /\ \/ /\ u \in DOMAIN activeSessions'
                         /\ activeSessions'[u].subject = s
                      \/ /\ u \in DOMAIN studySessions'
                         /\ studySessions'[u].subject = s
                   /\ userState' = userState]_vars

\* a click on a START_BREAK, END_BREAK or END_SESSION button by user u
SessionClick(u) ==
    \E m \in DOMAIN chat, t \in CoarseInstants :
        \/ handleStartBreak(u, m, t)
        \/ handleEndBreak(u, m, t)
        \/ handleEndSession(u, m, t)

\* a click by user u on an answer, add_confirm or delete button of message m
QuestionClick(u, m) ==
    \/ \E answer \in {"a", "b", "c"} : handleAnswer(u, m, answer)
    \/ handleAddConfirmation(u, m)
    \/ handleDeleteConfirmation1(u, m)
    \/ handleDeleteConfirmation2(u, m)
    \/ deleteQuestion(u, m)

\* a click by user u on a confirm or retry button of message m
ConfirmClick(u, m) ==
    \/ handleConfirmChoices(u, m)
    \/ handleRetryChoices(u, m)
    \/ handleConfirmAnswer(u, m)
    \/ handleRetryAnswer(u, m)

\* no store entry is created or changed and no message is sent
Silent ==
    /\ UNCHANGED <<activeSessions, studySessions, sessionMessages>>
    /\ UNCHANGED <<userState, questions>>
    /\ nextMessageId' = nextMessageId
    /\ UNCHANGED <<acks, explained>>

\* C20: a break or session click of a user without a session, a question
\* click naming a question that is not stored, and a confirm or retry click
\* of a user without a draft create or change no store entry and send no
\* message.
C20_ClicksWithoutTargetAreSilent ==
    [][/\ \A u \in Users :
              (SessionClick(u) /\ ~ (u \in DOMAIN activeSessions)) => Silent
       /\ \A u \in Users, m \in DOMAIN chat :
              /\ IsDefined(chat[m].question)
              /\ ~ (Get(chat[m].question) \in DOMAIN questions)
              /\ QuestionClick(u, m)
              => Silent
       /\ \A u \in Users, m \in DOMAIN chat :
              (ConfirmClick(u, m) /\ ~ HasDraft(u)) => Silent]_vars

\* C18: when a user's draft ends, by publication or by CANCEL_QUESTION, no
\* message recorded for that draft (the prompts the bot sent and the
\* messages the user typed during authoring) is still displayed: a delete
\* was issued for each of them.
C18_DraftEndDeletesExchange ==
    [][\A u \in Users :
          (HasDraft(u) /\ ~ (u \in DOMAIN userState')) =>
              \A id \in Range(userState[u].tempMessages) : ~ (id \in DOMAIN chat')]_vars

----------------------------------------------------------------------------
(* Properties of invalid input *)

\* one author who may type any message at any step and confirms what the
\* confirmation screens offer
NextInput ==
    \/ (chat = EmptyMap /\ nextMessageId = 1 /\ handleStart("u1"))
    \/ \E m \in DOMAIN chat :
           /\ nextMessageId <= InputMessages
           /\ ~ HasDraft("u1")
           /\ handleCreateQuestion("u1", m)
    \/ \E m \in DOMAIN chat, s \in {"CC"} :
           /\ nextMessageId <= InputMessages
           /\ HasDraft("u1")
           /\ userState["u1"].state = "WAITING_SUBJECT"
           /\ handleSelectSubject("u1", m, s)
    \/ \E msg \in Messages :
           /\ nextMessageId < InputMessages
           /\ HasDraft("u1")
           /\ userState["u1"].state # "WAITING_EXPLANATION"
           /\ handleQuestionCreation("u1", msg, 0)
    \/ \E m \in DOMAIN chat :
           nextMessageId <= InputMessages /\ handleConfirmChoices("u1", m)
    \/ \E m \in DOMAIN chat :
           nextMessageId <= InputMessages /\ handleConfirmAnswer("u1", m)

SpecInput == Init /\ [][NextInput]_vars

\* the choices a text supplies: its non-empty lines; fewer than 2 or more
\* than 5 of them are too few or too many
InvalidChoices(text) ==
    Len(NonEmptyLines(text)) < 2 \/ Len(NonEmptyLines(text)) > 5

\* the reply to the message that is being handled is a plain retry prompt
RetryPrompt ==
    /\ nextMessageId' = nextMessageId + 2
    /\ chat'[nextMessageId + 1].kind = "prompt"

\* C19: a choice text with too few or too many choices is answered with a
\* retry prompt and leaves the draft's state, choices and pending choices
\* unchanged; an answer letter outside the labels of the draft's choices is
\* answered with a retry prompt and leaves the draft's state, correctAnswer
\* and pending answer unchanged.
C19_InvalidInputChangesNothing ==
    [][\A u \in Users, msg \in Messages :
          (HasDraft(u) /\ IsDefined(msg.text) /\ handleQuestionCreation(u, msg, 0)) =>
              LET d == userState[u]
                  text == Get(msg.text)
              IN  /\ (d.state = "WAITING_CHOICES" /\ InvalidChoices(text)) =>
                         /\ RetryPrompt
                         /\ userState'[u].state = d.state
                         /\ userState'[u].questionData.choices = d.questionData.choices
                         /\ userState'[u].questionData.tempChoices
                                = d.questionData.tempChoices
                  /\ (/\ d.state = "WAITING_CORRECT_ANSWER"
                      /\ IsDefined(d.questionData.choices)
                      /\ ~ (AnswerOf(text) \in Labels(Get(d.questionData.choices)))) =>
                         /\ RetryPrompt
                         /\ userState'[u].state = d.state
                         /\ userState'[u].questionData.correctAnswer
                                = d.questionData.correctAnswer
                         /\ userState'[u].questionData.tempAnswer
                                = d.questionData.tempAnswer]_vars

----------------------------------------------------------------------------
(* handlers.js: the study screens of the dispatcher with its own SessionManager *)

ScreenFrame ==
    /\ UNCHANGED <<userState, questions, clock, timers>>
    /\ UNCHANGED <<storeVars, questionVars>>

\* ACTIONS.START_STUDYING: the last menu is deleted, the subject picker is
\* sent and remembered
handleStartStudying(u, m) ==
    /\ Displays(m, "start_studying")
    /\ nextMessageId <= MaxMessages
    /\ chat' = MapSet(Deleted(chat, {lastMenuMessage}), nextMessageId, Message("subject"))
    /\ lastSubjectMessage' = nextMessageId
    /\ nextMessageId' = nextMessageId + 1
    /\ UNCHANGED <<lastMenuMessage, studySessions>>
    /\ ScreenFrame

\* ACTIONS.CANCEL_STUDYING: the last subject picker is deleted and the notice
\* with the main menu buttons is sent
handleCancelStudying(u, m) ==
    /\ Displays(m, "cancel_studying")
    /\ nextMessageId <= MaxMessages
    /\ chat' = MapSet(Deleted(chat, {lastSubjectMessage}), nextMessageId,
                      Message("study_cancelled"))
    /\ nextMessageId' = nextMessageId + 1
    /\ UNCHANGED <<lastMenuMessage, lastSubjectMessage, studySessions>>
    /\ ScreenFrame

\* bot.editMessageReplyMarkup({ inline_keyboard: [] }, ...) on message m
KeyboardCleared(c, m) == [c EXCEPT ![m] = Message("closed")]

\* SessionManager.updateSessionStatus of handlers.js, on its session map
StatusUpdated(ss, u, status) ==
    IF u \in DOMAIN ss THEN [ss EXCEPT ![u].status = status] ELSE ss

\* ACTIONS.START_BREAK: the clicked keyboard is cleared, the status updated
\* and the break announcement sent
startBreakClick(u, m) ==
    /\ Displays(m, "start_break")
    /\ nextMessageId <= MaxMessages
    /\ studySessions' = StatusUpdated(studySessions, u, "break")
    /\ chat' = MapSet(KeyboardCleared(chat, m), nextMessageId, Message("break"))
    /\ nextMessageId' = nextMessageId + 1
    /\ UNCHANGED <<lastMenuMessage, lastSubjectMessage>>
    /\ ScreenFrame

\* ACTIONS.END_BREAK: the clicked keyboard is cleared, the status updated and
\* the announcement with the session buttons sent
endBreakClick(u, m) ==
    /\ Displays(m, "end_break")
    /\ nextMessageId <= MaxMessages
    /\ studySessions' = StatusUpdated(studySessions, u, "studying")
    /\ chat' = MapSet(KeyboardCleared(chat, m), nextMessageId, Message("studying"))
    /\ nextMessageId' = nextMessageId + 1
    /\ UNCHANGED <<lastMenuMessage, lastSubjectMessage>>
    /\ ScreenFrame

\* ACTIONS.END_SESSION: the clicked keyboard is cleared; with a session the
\* closing message with the main menu buttons is sent and the session removed
endSessionClick(u, m) ==
    /\ Displays(m, "end_session")
    /\ nextMessageId <= MaxMessages
    /\ IF u \in DOMAIN studySessions
       THEN /\ chat' = MapSet(KeyboardCleared(chat, m), nextMessageId, Message("ended"))
            /\ nextMessageId' = nextMessageId + 1
            /\ studySessions' = MapDelete(studySessions, u)
       ELSE /\ chat' = KeyboardCleared(chat, m)
            /\ UNCHANGED <<nextMessageId, studySessions>>
    /\ UNCHANGED <<lastMenuMessage, lastSubjectMessage>>
    /\ ScreenFrame

\* a handleMessage without the topic check
handleMessage_NoTopicCheck(u, msg, threadId, chatType, t) ==
    IF ~ HasDraft(u)
    THEN /\ nextMessageId <= MaxMessages
         /\ chat' = MapSet(chat, nextMessageId, Message("user"))
         /\ nextMessageId' = nextMessageId + 1
         /\ UNCHANGED <<lastMenuMessage, lastSubjectMessage, studySessions>>
         /\ ScreenFrame
    ELSE handleQuestionCreation(u, msg, t)

\* handleMessage: a message outside a topic and outside a private chat is
\* ignored; any other goes to handleQuestionCreation, which returns false for
\* a sender without a draft. The user's message has id nextMessageId.
handleMessage(u, msg, threadId, chatType, t) ==
    IF (~ threadId /\ chatType # "private") \/ ~ HasDraft(u)
    THEN /\ nextMessageId <= MaxMessages
         /\ chat' = MapSet(chat, nextMessageId, Message("user"))
         /\ nextMessageId' = nextMessageId + 1
         /\ UNCHANGED <<lastMenuMessage, lastSubjectMessage, studySessions>>
         /\ ScreenFrame
    ELSE handleQuestionCreation(u, msg, t)

ChatTypes == {"private", "supergroup"}

\* two users on the menus, the subject pickers, the session keyboards and the
\* cancel buttons; what they type goes no further than the question text
NextScreens ==
    \/ \E u \in Users : nextMessageId <= ScreenMessages /\ handleStart(u)
    \/ \E u \in Users, m \in DOMAIN chat :
           nextMessageId <= ScreenMessages /\ handleStartStudying(u, m)
    \/ \E u \in Users, m \in DOMAIN chat :
           nextMessageId <= ScreenMessages /\ handleCancelStudying(u, m)
    \/ \E u \in Users, m \in DOMAIN chat :
           nextMessageId <= ScreenMessages /\ handleCreateQuestion(u, m)
    \/ \E u \in Users, m \in DOMAIN chat :
           nextMessageId <= ScreenMessages /\ handleSelectSubject(u, m, "CC")
    \/ \E u \in Users, m \in DOMAIN chat :
           nextMessageId <= ScreenMessages /\ handleCancelQuestion(u, m)
    \/ \E m \in timers : cancelNoticeTimeout(m)
    \/ \E u \in Users, m \in DOMAIN chat :
           nextMessageId <= ScreenMessages /\ startBreakClick(u, m)
    \/ \E u \in Users, m \in DOMAIN chat :
           nextMessageId <= ScreenMessages /\ endBreakClick(u, m)
    \/ \E u \in Users, m \in DOMAIN chat :
           nextMessageId <= ScreenMessages /\ endSessionClick(u, m)
    \/ \E u \in Users, threadId \in BOOLEAN, chatType \in ChatTypes :
           /\ nextMessageId < ScreenMessages
           /\ HasDraft(u) => userState[u].state = "WAITING_QUESTION"
           /\ handleMessage(u, TextMessage(<<"a">>), threadId, chatType, 0)

SpecScreens == Init /\ [][NextScreens]_vars

----------------------------------------------------------------------------
(* Properties of the screens *)

\* a click by user u on a button of message m that shows a new screen
ScreenClick(u, m) ==
    \/ handleStartStudying(u, m)
    \/ handleCancelStudying(u, m)
    \/ handleCreateQuestion(u, m)
    \/ \E s \in Subjects : handleSelectSubject(u, m, s)
    \/ handleCancelQuestion(u, m)
    \/ startBreakClick(u, m)
    \/ endBreakClick(u, m)
    \/ endSessionClick(u, m)
    \/ ConfirmClick(u, m)
    \/ handleDeleteConfirmation1(u, m)
    \/ handleDeleteConfirmation2(u, m)
    \/ handleDeleteCancel(u, m)
    \/ deleteQuestion(u, m)

\* C21: after a click that shows a new screen, the message whose button was
\* clicked is no longer displayed or displays no button.
C21_ClickedButtonsAreGone ==
    [][\A u \in Users, m \in DOMAIN chat :
          ScreenClick(u, m) =>
              \/ ~ (m \in DOMAIN chat')
              \/ Buttons(chat'[m]) = {}]_vars

\* the messages a step removes from the chat
Removed == (DOMAIN chat) \ (DOMAIN chat')

\* C22: when a new main menu is sent the previously sent one is deleted, and
\* a Start Studying, Create Question, select-subject or cancel click removes
\* no message but the one that was clicked, whatever the interleaving of the
\* users' /start commands and clicks.
C22_LastShownIsTheOneRemoved ==
    [][/\ \A u \in Users :
              (handleStart(u) /\ lastMenuMessage \in DOMAIN chat) =>
                  ~ (lastMenuMessage \in DOMAIN chat')
       /\ \A u \in Users, m \in DOMAIN chat :
              (\/ handleStartStudying(u, m)
               \/ handleCreateQuestion(u, m)
               \/ \E s \in Subjects : handleSelectSubject(u, m, s)
               \/ handleCancelStudying(u, m)
               \/ handleCancelQuestion(u, m)) =>
                  Removed \subseteq {m}]_vars

\* C28: after CANCEL_QUESTION the user has no draft, and a text of a user
\* without a draft changes no draft and no question and gets no reply; after
\* CANCEL_STUDYING the user has no study session.
C28_CancelClearsEntry ==
    [][\A u \in Users :
          /\ \A m \in DOMAIN chat :
                 handleCancelQuestion(u, m) => ~ (u \in DOMAIN userState')
          /\ \A threadId \in BOOLEAN, chatType \in ChatTypes :
                 (~ HasDraft(u) /\ handleMessage(u, TextMessage(<<"a">>), threadId, chatType, 0)) =>
                     /\ UNCHANGED <<userState, questions>>
                     /\ nextMessageId' = nextMessageId + 1
          /\ \A m \in DOMAIN chat :
                 handleCancelStudying(u, m) => ~ (u \in DOMAIN studySessions')]_vars

----------------------------------------------------------------------------
(* Properties of what an author types *)

\* the displayed messages of users that no draft tracks
Stray == {m \in DOMAIN chat : chat[m].kind = "user"} \ AllTempMessages(userState)

\* one author: /start once or twice, then the workflow with the text each
\* step expects, typed in a private chat, in a topic or in a group chat
\* outside any topic
NextTyping ==
    \/ (nextMessageId <= 2 /\ handleStart("u1"))
    \/ \E m \in DOMAIN chat :
           nextMessageId <= TypingMessages /\ handleCreateQuestion("u1", m)
    \/ \E m \in DOMAIN chat :
           /\ nextMessageId <= TypingMessages
           /\ HasDraft("u1")
           /\ userState["u1"].state = "WAITING_SUBJECT"
           /\ handleSelectSubject("u1", m, "CC")
    \/ \E msg \in Messages, threadId \in BOOLEAN, chatType \in ChatTypes :
           /\ nextMessageId < TypingMessages
           /\ Straight("u1", msg)
           /\ (~ threadId /\ chatType # "private") => Cardinality(Stray) < MaxStray
           /\ handleMessage("u1", msg, threadId, chatType, 0)
    \/ \E m \in DOMAIN chat :
           nextMessageId <= TypingMessages /\ handleConfirmChoices("u1", m)
    \/ \E m \in DOMAIN chat :
           nextMessageId <= TypingMessages /\ handleConfirmAnswer("u1", m)

SpecTyping == Init /\ [][NextTyping]_vars

\* a message typed by user u in a group chat outside any topic
Outside(u) ==
    \E msg \in Messages : handleMessage(u, msg, FALSE, "supergroup", 0)

----------------------------------------------------------------------------
(* quiz.js: the rendering of a published question *)

\* `${String.fromCharCode(97 + index)}) ${choice.trim()}`: a choice as the
\* string formatChoices stores
ChoiceString(choice) == <<choice.label, ") ", choice.text>>

\* createQuizMessage(questionData): the lines of the message
createQuizMessage(questionData) ==
    LET choices == Get(questionData.choices) IN
    <<<<"Subject: ", questionData.subject>>, <<questionData.question>>>>
        \o [i \in 1..Len(choices) |-> ChoiceString(choices[i])]
        \o <<<<"Question created by ", questionData.creatorId>>>>

\* the payload `answer:${questionId}:${label}`
AnswerPayload(questionId, label) == <<"answer", ":", questionId, ":", label>>

\* an answer row of the five buttons a to e, whatever the choices
createAnswerKeyboard_FiveButtons(questionId) ==
    [i \in 1..5 |-> AnswerPayload(questionId, Letters[i])]

\* createAnswerKeyboard(questionId, creatorId): the payloads of the answer row
createAnswerKeyboard(questionId) ==
    LET numChoices == IF questionId \in DOMAIN questions
                      THEN Len(Get(questions[questionId].choices))
                      ELSE 5
    IN  [i \in 1..numChoices |-> AnswerPayload(questionId, Letters[i])]

\* const [_, questionId, answer] = callbackQuery.data.split(':')
AnswerOfPayload(payload) == payload[5]

\* handleAnswer: isCorrect = answer === question.correctAnswer
IsCorrect(question, payload) == Some(AnswerOfPayload(payload)) = question.correctAnswer

\* the choice lines of a quiz message: what stands between the two heading
\* lines and the creator line
ChoiceLines(message) == SubSeq(message, 3, Len(message) - 1)

----------------------------------------------------------------------------
(* Properties of photos *)

\* one author who goes straight through the workflow and may send a photo,
\* with or without a caption, at any step
NextPhoto ==
    \/ (chat = EmptyMap /\ nextMessageId = 1 /\ handleStart("u1"))
    \/ \E m \in DOMAIN chat :
           /\ nextMessageId <= PhotoMessages
           /\ ~ HasDraft("u1")
           /\ questions = EmptyMap
           /\ handleCreateQuestion("u1", m)
    \/ \E m \in DOMAIN chat :
           /\ nextMessageId <= PhotoMessages
           /\ HasDraft("u1")
           /\ userState["u1"].state = "WAITING_SUBJECT"
           /\ handleSelectSubject("u1", m, "CC")
    \/ \E msg \in Messages :
           /\ nextMessageId < PhotoMessages
           /\ (msg.photo /\ HasDraft("u1")) \/ Straight("u1", msg)
           /\ handleQuestionCreation("u1", msg, 0)
    \/ \E m \in DOMAIN chat :
           nextMessageId <= PhotoMessages /\ handleConfirmChoices("u1", m)
    \/ \E m \in DOMAIN chat :
           nextMessageId <= PhotoMessages /\ handleConfirmAnswer("u1", m)

SpecPhoto == Init /\ [][NextPhoto]_vars

\* a photo sent by user u, with or without a caption
PhotoSent(u, msg) == msg.photo /\ handleQuestionCreation(u, msg, 0)

\* C27: a photo is attached only while the draft waits for the question: with
\* a caption the caption becomes the question and the draft waits for the
\* choices, without one the draft keeps waiting and the bot prompts for the
\* text; in any other state the photo attaches no image, the draft stays in
\* its state and no question is published.
C27_PhotoOnlyWhileWaitingQuestion ==
    [][\A u \in Users, msg \in Messages :
          PhotoSent(u, msg) =>
              LET d == userState[u] IN
              IF d.state = "WAITING_QUESTION"
              THEN /\ u \in DOMAIN userState'
                   /\ IsDefined(userState'[u].questionData.image)
                   /\ chat'[nextMessageId + 1].kind = "prompt"
                   /\ IF IsDefined(msg.caption)
                      THEN /\ userState'[u].state = "WAITING_CHOICES"
                           /\ userState'[u].questionData.question = msg.caption
                      ELSE /\ userState'[u].state = "WAITING_QUESTION"
                           /\ userState'[u].questionData.question = d.questionData.question
              ELSE /\ u \in DOMAIN userState'
                   /\ userState'[u].state = d.state
                   /\ userState'[u].questionData.image = d.questionData.image
                   /\ questions' = questions]_vars

\* the part of C27 that holds: the same without the draft that waits for the
\* explanation
C27_PhotoBeforeExplanation ==
    [][\A u \in Users, msg \in Messages :
          (PhotoSent(u, msg) /\ userState[u].state # "WAITING_EXPLANATION") =>
              LET d == userState[u] IN
              IF d.state = "WAITING_QUESTION"
              THEN /\ IsDefined(userState'[u].questionData.image)
                   /\ chat'[nextMessageId + 1].kind = "prompt"
                   /\ userState'[u].state =
                          IF IsDefined(msg.caption) THEN "WAITING_CHOICES"
                          ELSE "WAITING_QUESTION"
              ELSE /\ userState'[u].state = d.state
                   /\ userState'[u].questionData.image = d.questionData.image
                   /\ questions' = questions]_vars

\* a question published by a photo: it has no explanation
C27_PublishedByPhoto ==
    \E q \in DOMAIN questions : ~ IsDefined(questions[q].explanation)

----------------------------------------------------------------------------
(* constants.js, buttons.js: the payloads of the buttons *)

\* const ACTIONS = { ... } (ACTIONS is a reserved word)
Actions ==
    [START_STUDYING |-> "start_studying",
     START_BREAK |-> "start_break",
     END_BREAK |-> "end_break",
     END_SESSION |-> "end_session",
     WHAT_SUBJECT |-> "what_subject",
     CREATE_QUESTION |-> "create_question",
     CANCEL_STUDYING |-> "cancel_studying",
     CANCEL_QUESTION |-> "cancel_question",
     SET_GOAL |-> "set_goal",
     SKIP_GOAL |-> "skip_goal",
     CONFIRM_GOAL |-> "confirm_goal",
     RETRY_GOAL |-> "retry_goal",
     SELECT_DESIGN |-> "select_design",
     SHARE_INSTAGRAM |-> "share_instagram",
     SHARE_FACEBOOK |-> "share_facebook",
     DONT_SHARE |-> "dont_share"]

\* ACTIONS.KEY inside a payload: a key the table lacks reads as undefined,
\* which a template literal prints as 'undefined'
ActionToken(key) == IF key \in DOMAIN Actions THEN Actions[key] ELSE "undefined"

\* the key of ACTIONS a button's callback_data is written with; "" for a
\* payload written as a string literal
ActionKey(action) ==
    CASE action = "start_studying" -> "START_STUDYING"
      [] action = "create_question" -> "CREATE_QUESTION"
      [] action = "select_subject" -> "SELECT_SUBJECT"
      [] action = "cancel_studying" -> "CANCEL_STUDYING"
      [] action = "cancel_question" -> "CANCEL_QUESTION"
      [] action = "start_break" -> "START_BREAK"
      [] action = "end_break" -> "END_BREAK"
      [] action = "end_session" -> "END_SESSION"
      [] action = "set_goal" -> "SET_GOAL"
      [] action = "skip_goal" -> "SKIP_GOAL"
      [] OTHER -> ""

\* callback_data of a button, as the sequence of its colon-separated parts
callback_data(b) ==
    LET token == IF ActionKey(b.action) = "" THEN b.action
                 ELSE ActionToken(ActionKey(b.action))
    IN IF b.arg = "" THEN <<token>> ELSE <<token, b.arg>>

\* the buttons of the displayed messages
DisplayedButtons == UNION {Buttons(chat[m]) : m \in DOMAIN chat}

\* start / break / end / create / cancel
BareActions ==
    {"start_studying", "start_break", "end_break", "end_session",
     "create_question", "cancel_studying", "cancel_question"}

\* C29: every displayed button carries a payload of the grammar: a subject
\* button carries select_subject:<subjectLabel>, a start / break / end /
\* create / cancel button carries its bare action token.
C29_PayloadsFollowGrammar ==
    \A b \in DisplayedButtons :
        /\ b.action = "select_subject" => callback_data(b) = <<"select_subject", b.arg>>
        /\ b.action \in BareActions => callback_data(b) = <<b.action>>

\* the part of C29 that holds: the bare action tokens
C29_BareTokens ==
    \A b \in DisplayedButtons :
        b.action \in BareActions =>
            /\ callback_data(b) = <<b.action>>
            /\ \E key \in DOMAIN Actions : Actions[key] = callback_data(b)[1]

\* a subject picker is displayed and its subject buttons carry 'undefined:'
C29_UndefinedPrefix ==
    \E b \in DisplayedButtons :
        b.action = "select_subject" /\ callback_data(b)[1] = "undefined"

----------------------------------------------------------------------------
(* Properties of the progress image *)

\* a click of user u on a select_design:<n> button
DesignClick(u) ==
    \E m \in DOMAIN chat, t \in CoarseInstants : handleSelectDesign(u, m, t)

\* C30: when the last thing the session manager did was to end the session
\* of user u, a select_design click of u generates a progress image from the
\* subject, goal, study minutes and break minutes of the ended session.
C30_ImageOfEndedSession ==
    [][\A u \in Users :
          (ret.op = "endSession" /\ ret.user = u /\ DesignClick(u)) =>
              /\ ret'.op = "generateDesign"
              /\ IsDefined(ret'.value)
              /\ Get(ret'.value).subject = Get(ret.value).subject
              /\ Get(ret'.value).goalTime = Get(ret.value).goalTime
              /\ Get(ret'.value).actualTime = Get(ret.value).actualTime
              /\ Get(ret'.value).breakTime = Get(ret.value).breakTime]_vars

\* what the code does: right after the end of u's session the click of u
\* generates nothing and sends nothing
C30_NoImageAfterEnd ==
    [][\A u \in Users :
          (ret.op = "endSession" /\ ret.user = u /\ DesignClick(u)) =>
              /\ ret' = Call("getCurrentStats", u, Undefined)
              /\ UNCHANGED <<chat, nextMessageId, sessionMessages, activeSessions>>]_vars

\* a design was clicked by a user whose session had ended: no image
C30_ClickedWithoutStats ==
    /\ ret.op = "getCurrentStats"
    /\ \E m \in DOMAIN chat : chat[m].kind = "design"

\* an image was generated: from the running session of the user who clicked
C30_ImageOfRunningSession ==
    /\ ret.op = "generateDesign"
    /\ ret.user \in DOMAIN activeSessions

----------------------------------------------------------------------------
(* handlers.js of 03:12: the clicks of an author *)

\* ACTIONS.CREATE_QUESTION: the last menu is deleted, a draft is started and
\* the subject picker is sent
createQuestionClick(u, m) ==
    /\ Displays(m, "create_question")
    /\ nextMessageId <= MaxMessages
    /\ userState' = startQuestionCreation(userState, u)
    /\ chat' = MapSet(Deleted(chat, {lastMenuMessage}), nextMessageId,
                      Message("question_subject"))
    /\ nextMessageId' = nextMessageId + 1
    /\ ret' = NoCall
    /\ UNCHANGED <<activeSessions, sessionMessages, completed>>
    /\ UNCHANGED <<questions, clock, timers, lastMenuMessage, lastSubjectMessage,
                   studySessions, questionVars>>

\* default: select_subject:<subject> of a user whose draft waits for the
\* subject, or of any other user (a study session is started)
selectSubjectClick(u, m, subject) ==
    /\ m \in DOMAIN chat
    /\ Button("select_subject", subject) \in Buttons(chat[m])
    /\ nextMessageId <= MaxMessages
    /\ IF HasDraft(u) /\ userState[u].state = "WAITING_SUBJECT"
       THEN /\ userState' = [userState EXCEPT
                                ![u].questionData.subject = Some(subject),
                                ![u].state = "WAITING_QUESTION"]
            /\ chat' = MapSet(Deleted(chat, {lastSubjectMessage}), nextMessageId,
                              Message("prompt"))
            /\ UNCHANGED studySessions
       ELSE /\ studySessions' = MapSet(studySessions, u,
                                       [subject |-> subject, status |-> "studying"])
            /\ chat' = MapSet(Deleted(chat, {lastSubjectMessage}), nextMessageId,
                              Message("studying"))
            /\ UNCHANGED userState
    /\ nextMessageId' = nextMessageId + 1
    /\ ret' = NoCall
    /\ UNCHANGED <<activeSessions, sessionMessages, completed>>
    /\ UNCHANGED <<questions, clock, timers, lastMenuMessage, lastSubjectMessage,
                   questionVars>>

\* ACTIONS.CANCEL_QUESTION: the clicked message is deleted, the draft removed
\* and the notice is sent with the main menu buttons
cancelQuestionClick(u, m) ==
    /\ Displays(m, "cancel_question")
    /\ nextMessageId <= MaxMessages
    /\ userState' = MapDelete(userState, u)
    /\ chat' = MapSet(Deleted(chat, {m}), nextMessageId, Message("question_cancelled"))
    /\ nextMessageId' = nextMessageId + 1
    /\ ret' = NoCall
    /\ UNCHANGED <<activeSessions, sessionMessages, completed>>
    /\ UNCHANGED <<questions, clock, timers, lastMenuMessage, lastSubjectMessage,
                   studySessions, questionVars>>

\* the payloads of the two confirmation keyboards of quiz.js
ConfirmationPayloads ==
    {"confirm_choices", "retry_choices", "confirm_answer", "retry_answer"}

\* a click on a button of a confirmation keyboard: no prefix test and no case
\* of the switch matches its payload and the default branch looks for
\* select_subject only, so handleCallback returns; ret records the click
unmatchedClick(u, m, data) ==
    /\ data \in ConfirmationPayloads
    /\ Displays(m, data)
    /\ ret' = Call("handleCallback", u, <<data>>)
    /\ UNCHANGED <<activeSessions, sessionMessages, completed, clock, quizVars>>

\* one author on this dispatcher: /start once, then the clicks and any text
\* or photo
NextRouting ==
    \/ (chat = EmptyMap /\ nextMessageId = 1 /\ handleStart("u1"))
    \/ \E m \in DOMAIN chat :
           /\ nextMessageId <= RoutingMessages
           /\ ~ HasDraft("u1")
           /\ createQuestionClick("u1", m)
    \/ \E m \in DOMAIN chat :
           /\ nextMessageId <= RoutingMessages
           /\ HasDraft("u1")
           /\ selectSubjectClick("u1", m, "CC")
    \/ \E m \in DOMAIN chat :
           nextMessageId <= RoutingMessages /\ cancelQuestionClick("u1", m)
    \/ \E msg \in Messages :
           /\ nextMessageId < RoutingMessages
           /\ HasDraft("u1")
           /\ userState["u1"].state # "WAITING_SUBJECT"
           /\ handleQuestionCreation("u1", msg, 0)
    \/ \E m \in DOMAIN chat, data \in ConfirmationPayloads :
           unmatchedClick("u1", m, data)

SpecRouting == Init /\ [][NextRouting]_vars

----------------------------------------------------------------------------
(* Properties of the routing *)

\* a click of user u on button data of message m, on either dispatcher
AuthoringClick(u, m, data) ==
    \/ unmatchedClick(u, m, data)
    \/ data = "confirm_choices" /\ handleConfirmChoices(u, m)
    \/ data = "retry_choices" /\ handleRetryChoices(u, m)
    \/ data = "confirm_answer" /\ handleConfirmAnswer(u, m)
    \/ data = "retry_answer" /\ handleRetryAnswer(u, m)
    \/ data = "cancel_question" /\ (handleCancelQuestion(u, m) \/ cancelQuestionClick(u, m))

\* C31: a click of a draft's author on a button of the authoring keyboards
\* reaches its quiz handler: confirm_choices with choices pending makes them
\* the choices and the draft waits for the answer, retry_choices makes it
\* wait for the choices, confirm_answer with an answer pending makes it the
\* answer and the draft waits for the explanation, retry_answer makes it wait
\* for the answer, and cancel removes the draft.
C31_AuthoringButtonsRouted ==
    [][\A u \in Users, m \in DOMAIN chat,
          data \in ConfirmationPayloads \cup {"cancel_question"} :
          (HasDraft(u) /\ AuthoringClick(u, m, data)) =>
              LET q == userState[u].questionData IN
              CASE data = "confirm_choices" ->
                       IsDefined(q.tempChoices) =>
                           /\ userState'[u].state = "WAITING_CORRECT_ANSWER"
                           /\ userState'[u].questionData.choices = q.tempChoices
                [] data = "retry_choices" ->
                       userState'[u].state = "WAITING_CHOICES"
                [] data = "confirm_answer" ->
                       IsDefined(q.tempAnswer) =>
                           /\ userState'[u].state = "WAITING_EXPLANATION"
                           /\ userState'[u].questionData.correctAnswer = q.tempAnswer
                [] data = "retry_answer" ->
                       userState'[u].state = "WAITING_CORRECT_ANSWER"
                [] OTHER -> ~ HasDraft(u)']_vars

\* a question is published: the author went from WAITING_SUBJECT through
\* both confirmations
C31_Published ==
    /\ questions # EmptyMap
    /\ ~ HasDraft("u1")

\* without the routes nothing is ever published
C31_NothingPublished == questions = EmptyMap

\* without the routes no draft gets past the choices
C31_StuckAtChoices ==
    \A u \in DOMAIN userState :
        userState[u].state \in {"WAITING_SUBJECT", "WAITING_QUESTION", "WAITING_CHOICES"}

\* the author clicked confirm_choices with choices pending and the draft
\* still waits for the choices
C31_ClickedInVain ==
    /\ ret = Call("handleCallback", "u1", <<"confirm_choices">>)
    /\ HasDraft("u1")
    /\ IsDefined(userState["u1"].questionData.tempChoices)
    /\ userState["u1"].state = "WAITING_CHOICES"

----------------------------------------------------------------------------
(* Properties of the scratch messages of several authors *)

\* C32: the publication of user u's question leaves the scratch-message list
\* of every other user's draft as it was and deletes none of the messages
\* recorded in those lists.
C32_PublicationCleansOwnScratchOnly ==
    [][\A u \in Users :
          Publishes(u) =>
              \A v \in (DOMAIN userState) \ {u} :
                  /\ userState'[v].tempMessages = userState[v].tempMessages
                  /\ \A m \in Range(userState[v].tempMessages) :
                         m \in DOMAIN chat => m \in DOMAIN chat']_vars

\* what the code does: the publication empties the scratch-message list of
\* every draft and deletes every message recorded in any of them
C32_PublicationCleansEveryDraft ==
    [][\A u \in Users :
          Publishes(u) =>
              \A v \in (DOMAIN userState) \ {u} :
                  /\ userState'[v].tempMessages = <<>>
                  /\ \A m \in Range(userState[v].tempMessages) :
                         m \notin DOMAIN chat']_vars

\* one author has published while the other's draft waits for input: the
\* other draft's scratch list is empty although its prompt was recorded
C32_OtherDraftLostItsScratch ==
    \E u \in DOMAIN userState :
        /\ questions # EmptyMap
        /\ userState[u].state # "WAITING_SUBJECT"
        /\ userState[u].tempMessages = <<>>

----------------------------------------------------------------------------
(* handlers.js with sessionManager.js: the goal a user types *)

\* the texts typed in the goal flow: a time and a text that is none
GoalTexts == {<<"0:02">>, <<"a">>}

\* /^([0-9]|0[0-9]|1[0-9]|2[0-3]):[0-5][0-9]$/.test(time) on the texts in use
isValidTimeFormat(text) == Len(text) = 1 /\ text[1] \in {"0:02", "2:00"}

\* hours * 60 + minutes of 'HH:MM', on the texts in use
convertToMinutes(text) ==
    CASE text[1] = "0:02" -> 2
      [] text[1] = "2:00" -> 120

\* session.tempGoalMinutes = minutes: the property is added to the session
WithTempGoal(session, minutes) ==
    [f \in (DOMAIN session) \cup {"tempGoalMinutes"} |->
        IF f = "tempGoalMinutes" THEN minutes ELSE session[f]]

\* delete session.tempGoalMinutes
WithoutTempGoal(session) ==
    [f \in (DOMAIN session) \ {"tempGoalMinutes"} |-> session[f]]

\* session && session.tempGoalMinutes
HasTempGoal(u) ==
    /\ u \in DOMAIN activeSessions
    /\ "tempGoalMinutes" \in DOMAIN activeSessions[u]
    /\ activeSessions[u].tempGoalMinutes # 0

\* ACTIONS.SET_GOAL: the prompt for the goal is sent and tracked
handleSetGoal(u, m) ==
    /\ Displays(m, "set_goal")
    /\ nextMessageId <= MaxMessages
    /\ chat' = MapSet(chat, nextMessageId, Message("goal_prompt"))
    /\ sessionMessages' = Tracked(sessionMessages, u, nextMessageId)
    /\ nextMessageId' = nextMessageId + 1
    /\ ret' = NoCall
    /\ UNCHANGED <<activeSessions, completed, clock, userState, lastSubjectMessage>>
    /\ GoalFrame

\* ACTIONS.CONFIRM_GOAL: with a session that has a pending goal, setGoalTime
\* on that session, then the subject picker is sent and remembered; nothing
\* otherwise
handleConfirmGoal(u, m) ==
    /\ Displays(m, "confirm_goal")
    /\ nextMessageId <= MaxMessages
    /\ IF HasTempGoal(u)
       THEN /\ activeSessions' = [activeSessions EXCEPT ![u] =
                   WithoutTempGoal([@ EXCEPT !.goalTimeMinutes =
                                                 activeSessions[u].tempGoalMinutes])]
            /\ chat' = MapSet(chat, nextMessageId, Message("goal_subject"))
            /\ lastSubjectMessage' = nextMessageId
            /\ nextMessageId' = nextMessageId + 1
       ELSE UNCHANGED <<activeSessions, chat, lastSubjectMessage, nextMessageId>>
    /\ ret' = NoCall
    /\ UNCHANGED <<sessionMessages, completed, clock, userState>>
    /\ GoalFrame

\* ACTIONS.RETRY_GOAL: the pending goal is dropped and the prompt is sent
\* again and tracked
handleRetryGoal(u, m) ==
    /\ Displays(m, "retry_goal")
    /\ nextMessageId <= MaxMessages
    /\ IF u \in DOMAIN activeSessions
       THEN activeSessions' = [activeSessions EXCEPT ![u] = WithoutTempGoal(@)]
       ELSE UNCHANGED activeSessions
    /\ chat' = MapSet(chat, nextMessageId, Message("goal_prompt"))
    /\ sessionMessages' = Tracked(sessionMessages, u, nextMessageId)
    /\ nextMessageId' = nextMessageId + 1
    /\ ret' = NoCall
    /\ UNCHANGED <<completed, clock, userState, lastSubjectMessage>>
    /\ GoalFrame

\* session && !session.goalTimeMinutes && msg.text
GoalInput(u, msg) ==
    /\ u \in DOMAIN activeSessions
    /\ activeSessions[u].goalTimeMinutes = 0
    /\ IsDefined(msg.text)

\* handleMessage of this dispatcher: a message outside a topic and outside a
\* private chat is ignored; a text of a user whose session has no goal is
\* taken as the goal (the confirmation is sent and the minutes are kept on
\* the session, or the format is asked for again); any other message goes to
\* handleQuestionCreation. The user's message has id nextMessageId.
handleMessageFlow(u, msg, threadId, chatType, t) ==
    IF ~ threadId /\ chatType # "private"
    THEN /\ nextMessageId <= MaxMessages
         /\ chat' = MapSet(chat, nextMessageId, Message("user"))
         /\ nextMessageId' = nextMessageId + 1
         /\ UNCHANGED <<storeVars, clock, userState, lastSubjectMessage>>
         /\ GoalFrame
    ELSE IF GoalInput(u, msg)
    THEN /\ nextMessageId + 1 <= MaxMessages
         /\ LET shown == MapSet(chat, nextMessageId, Message("user")) IN
            IF isValidTimeFormat(Get(msg.text))
            THEN /\ chat' = MapSet(shown, nextMessageId + 1, Message("goal_confirmation"))
                 /\ activeSessions' = [activeSessions EXCEPT ![u] =
                        WithTempGoal(@, convertToMinutes(Get(msg.text)))]
            ELSE /\ chat' = MapSet(shown, nextMessageId + 1, Message("goal_error"))
                 /\ UNCHANGED activeSessions
         /\ sessionMessages' = Tracked(sessionMessages, u, nextMessageId + 1)
         /\ nextMessageId' = nextMessageId + 2
         /\ UNCHANGED <<ret, completed, clock, userState, lastSubjectMessage>>
         /\ GoalFrame
    ELSE IF ~ HasDraft(u)
    THEN /\ nextMessageId <= MaxMessages
         /\ chat' = MapSet(chat, nextMessageId, Message("user"))
         /\ nextMessageId' = nextMessageId + 1
         /\ UNCHANGED <<storeVars, clock, userState, lastSubjectMessage>>
         /\ GoalFrame
    ELSE handleQuestionCreation(u, msg, t)

GoalMessagesTyped == {TextMessage(text) : text \in GoalTexts} \cup {PhotoMessage(Undefined)}

\* one user in a topic on the goal flow and on the authoring workflow; the
\* select_subject click of a user whose draft waits for the subject goes to
\* the draft, as the dispatcher of handlers.js routes it, any other starts a
\* session
NextGoalInput ==
    \/ (chat = EmptyMap /\ nextMessageId = 1 /\ handleStartMenu("u1"))
    \/ \E m \in DOMAIN chat :
           nextMessageId <= GoalInputMessages /\ handleStartStudyingFlow("u1", m)
    \/ \E m \in DOMAIN chat :
           nextMessageId <= GoalInputMessages /\ handleSetGoal("u1", m)
    \/ \E m \in DOMAIN chat :
           nextMessageId <= GoalInputMessages /\ handleSkipGoal("u1", m)
    \/ \E m \in DOMAIN chat :
           nextMessageId <= GoalInputMessages /\ handleConfirmGoal("u1", m)
    \/ \E m \in DOMAIN chat :
           nextMessageId <= GoalInputMessages /\ handleRetryGoal("u1", m)
    \/ \E m \in DOMAIN chat :
           /\ nextMessageId <= GoalInputMessages
           /\ ~ HasDraft("u1")
           /\ handleQuestionCreationClick("u1", m)
    \/ \E m \in DOMAIN chat :
           /\ nextMessageId <= GoalInputMessages
           /\ HasDraft("u1")
           /\ userState["u1"].state = "WAITING_SUBJECT"
           /\ handleSelectSubject("u1", m, "CC")
    \/ \E m \in DOMAIN chat, t \in CoarseInstants :
           /\ nextMessageId <= GoalInputMessages
           /\ HasDraft("u1") => userState["u1"].state # "WAITING_SUBJECT"
           /\ handleSubjectSelection("u1", m, "CC", t)
    \/ \E msg \in GoalMessagesTyped :
           /\ nextMessageId < GoalInputMessages
           /\ handleMessageFlow("u1", msg, TRUE, "supergroup", 0)
    \/ \E m \in DOMAIN chat, t \in CoarseInstants :
           nextMessageId <= GoalInputMessages /\ handleEndSession("u1", m, t)

SpecGoalInput == Init /\ [][NextGoalInput]_vars

----------------------------------------------------------------------------
(* Properties of the goal a user types *)

\* the draft states that wait for a text
WaitingForText ==
    {"WAITING_QUESTION", "WAITING_CHOICES", "WAITING_CORRECT_ANSWER",
     "WAITING_EXPLANATION"}

\* user u types text msg in a topic
TypedInTopic(u, msg) ==
    \E t \in CoarseInstants : handleMessageFlow(u, msg, TRUE, "supergroup", t)

C33_TextReachesAuthoringUnlessGoalMissing ==
    [][\A u \in Users, msg \in GoalMessagesTyped :
          (/\ HasDraft(u)
           /\ userState[u].state \in WaitingForText
           /\ IsDefined(msg.text)
           /\ ~ GoalInput(u, msg)
           /\ TypedInTopic(u, msg)) =>
              \E t \in CoarseInstants : handleQuestionCreation(u, msg, t)]_vars

\* the text of an author with a session was answered as a goal and the draft
\* still waits for its question
C33_TextTakenAsGoal ==
    /\ HasDraft("u1")
    /\ userState["u1"].state = "WAITING_QUESTION"
    /\ "u1" \in DOMAIN activeSessions
    /\ \E m \in DOMAIN chat : chat[m].kind \in {"goal_error", "goal_confirmation"}

\* the text of an author without a session reached the draft
C33_TextTakenAsQuestion ==
    /\ HasDraft("u1")
    /\ userState["u1"].state = "WAITING_CHOICES"
    /\ "u1" \notin DOMAIN activeSessions

\* user u picks a subject on the picker that CONFIRM_GOAL sent
PicksAfterConfirm(u, m) ==
    /\ m \in DOMAIN chat
    /\ chat[m].kind = "goal_subject"
    /\ \E s \in Subjects, t \in CoarseInstants : handleSubjectSelection(u, m, s, t)

\* C34: when user u, whose goal was confirmed with CONFIRM_GOAL, picks a
\* subject on the picker that followed, the session that is created has the
\* confirmed goal; and the stats of a session that ends report its goal and
\* the percentage of that goal.
C34_ConfirmedGoalIsSessionGoal ==
    [][\A u \in Users :
          /\ \A m \in DOMAIN chat :
                 (/\ PicksAfterConfirm(u, m)
                  /\ u \in DOMAIN activeSessions
                  /\ activeSessions[u].goalTimeMinutes # 0) =>
                     activeSessions'[u].goalTimeMinutes =
                         activeSessions[u].goalTimeMinutes
          /\ (ret'.op = "endSession" /\ ret'.user = u /\ IsDefined(ret'.value)
              /\ u \in DOMAIN activeSessions) =>
                 /\ Get(ret'.value).goalTime = activeSessions[u].goalTimeMinutes
                 /\ Get(ret'.value).percentage =
                        Percentage(activeSessions[u], Get(ret'.value).actualTime)]_vars

\* what the code does: the session the pick creates has no goal
C34_PickedSessionHasNoGoal ==
    [][\A u \in Users, m \in DOMAIN chat :
          PicksAfterConfirm(u, m) => activeSessions'[u].goalTimeMinutes = 0]_vars

\* a goal can be typed only by a user who already has a session: the text
\* of a user without one gets no confirmation and sets no goal
C34_NoGoalBeforeSession ==
    [][\A u \in Users, msg \in GoalMessagesTyped :
          (u \notin DOMAIN activeSessions /\ TypedInTopic(u, msg)) =>
              /\ activeSessions' = activeSessions
              /\ \A m \in DOMAIN chat' :
                     chat'[m].kind = "goal_confirmation" => m \in DOMAIN chat]_vars

\* a goal was confirmed, the picker that followed was used, and the session
\* it created has no goal
C34_ConfirmedGoalLost ==
    /\ "u1" \in DOMAIN activeSessions
    /\ activeSessions["u1"].goalTimeMinutes = 0
    /\ \E m \in DOMAIN chat : chat[m].kind = "goal_subject"
    /\ \E m, n \in DOMAIN chat :
           chat[m].kind = "goal_subject" /\ chat[n].kind = "studying" /\ n > m

----------------------------------------------------------------------------
(* Properties of a break in progress *)

\* the session of user u is on break
OnBreak(u) ==
    /\ u \in DOMAIN activeSessions
    /\ activeSessions[u].status = "break"
    /\ activeSessions[u].currentBreak # Null

\* the whole minutes of the break in progress at instant t
RunningBreakMinutes(session, t) == DiffMinutes(t, session.currentBreak)

\* C35: when endSession is called for a session on break, the minutes of the
\* break in progress are part of the reported breakTime and not of the
\* reported actualTime; getCurrentStats at the same instant reports the same.
C35_RunningBreakCountedAsBreak ==
    [][\A u \in Users :
          (OnBreak(u) /\ ret'.op = "endSession" /\ ret'.user = u) =>
              LET session == activeSessions[u]
                  stats == Get(ret'.value)
                  running == RunningBreakMinutes(session, clock')
              IN /\ stats.breakTime = session.totalBreakMinutes + running
                 /\ stats.actualTime =
                        DiffMinutes(clock', session.startTime)
                            - (session.totalBreakMinutes + running)
                 /\ Get(getCurrentStats(u, clock')).breakTime = stats.breakTime
                 /\ Get(getCurrentStats(u, clock')).actualTime = stats.actualTime]_vars

\* what the code does: the break in progress is left out of breakTime and
\* its minutes are reported as study time
C35_RunningBreakCountedAsStudy ==
    [][\A u \in Users :
          (OnBreak(u) /\ ret'.op = "endSession" /\ ret'.user = u) =>
              LET session == activeSessions[u]
                  stats == Get(ret'.value)
              IN /\ stats.breakTime = session.totalBreakMinutes
                 /\ stats.actualTime =
                        DiffMinutes(clock', session.startTime) - session.totalBreakMinutes
                 /\ Get(getCurrentStats(u, clock')).breakTime = stats.breakTime
                 /\ Get(getCurrentStats(u, clock')).actualTime = stats.actualTime]_vars

----------------------------------------------------------------------------
(* Properties of the reported study time *)

\* C36: at every clock reading from now on, the actualTime that endSession
\* and getCurrentStats report for a session is at least 0 and at most the
\* whole minutes elapsed since startTime, and the minutes of the session's
\* breaks, each truncated by itself, add up to no more than those whole
\* minutes.
C36_StudyTimeWithinElapsed ==
    \A u \in DOMAIN activeSessions, t \in Instants :
        t >= clock =>
            LET session == activeSessions[u]
                elapsed == DiffMinutes(t, session.startTime)
                ended == EndSessionStats(session, t)
                current == Get(getCurrentStats(u, t))
            IN /\ 0 <= ended.actualTime /\ ended.actualTime <= elapsed
               /\ 0 <= current.actualTime /\ current.actualTime <= elapsed
               /\ session.totalBreakMinutes <= elapsed
               /\ SumDurations(session.breaks) <= elapsed

\* a session with two logged breaks, one of which lost half a minute to the
\* truncation, and with study time left
C36_Witness ==
    \E u \in DOMAIN activeSessions :
        LET session == activeSessions[u] IN
        /\ Len(session.breaks) = 2
        /\ \E i \in 1..2 :
               (session.breaks[i].duration * MinuteTicks)
                   < (session.breaks[i].end - session.breaks[i].start)
        /\ session.totalBreakMinutes > 0
        /\ EndSessionStats(session, clock).actualTime > 0

----------------------------------------------------------------------------
(* Properties of the session keyboards of several users *)

\* a click of user u on a START_BREAK, END_BREAK or END_SESSION button of
\* message m
ControlClick(u, m) ==
    \/ startBreakClick(u, m)
    \/ endBreakClick(u, m)
    \/ endSessionClick(u, m)

\* C37: a click on a session-control button of message m by a user who has
\* no session, while another user has one, changes no session record and
\* leaves the buttons of m as they were, and afterwards some message still
\* displays the END_SESSION button.
C37_OthersClickChangesNothing ==
    [][\A b \in Users, m \in DOMAIN chat :
          (/\ b \notin DOMAIN studySessions
           /\ studySessions # EmptyMap
           /\ ControlClick(b, m)) =>
              /\ studySessions' = studySessions
              /\ Buttons(chat'[m]) = Buttons(chat[m])
              /\ \E x \in DOMAIN chat' :
                     \E k \in Buttons(chat'[x]) : k.action = "end_session"]_vars

\* the part of C37 that holds: the click of one user changes no session
\* record of another user
C37_OthersSessionUnchanged ==
    [][\A b \in Users, m \in DOMAIN chat :
          ControlClick(b, m) =>
              \A a \in (DOMAIN studySessions) \ {b} :
                  /\ a \in DOMAIN studySessions'
                  /\ studySessions'[a] = studySessions[a]]_vars

\* what the code does: the keyboard of the clicked message is removed,
\* whoever clicks
C37_ClickedKeyboardRemoved ==
    [][\A b \in Users, m \in DOMAIN chat :
          ControlClick(b, m) => Buttons(chat'[m]) = {}]_vars

\* a user has a session and no displayed message has a session-control
\* button
C37_NoControlLeft ==
    /\ studySessions # EmptyMap
    /\ \A x \in DOMAIN chat :
           \A k \in Buttons(chat[x]) :
               k.action \notin {"start_break", "end_break", "end_session"}
    /\ \E x \in DOMAIN chat : chat[x].kind = "closed"

----------------------------------------------------------------------------
(* bot.js and index.js: the listeners of a message *)

\* the texts of a /start command, as typed and as a client completes it in a
\* group
CommandTexts == {<<"/start">>, <<"/start@bot">>}

\* /\/start/.test(text) on the texts in use
MatchesStart(text) == text \in CommandTexts

\* bot.onText(/\/start/, ...): the listener of a text the pattern matches
onTextStart(u, msg) ==
    /\ IsDefined(msg.text)
    /\ MatchesStart(Get(msg.text))
    /\ handleStart(u)

\* bot.js: bot.on('message', ...) hands every message to handleMessage
botOnMessage(u, msg, threadId, chatType, t) ==
    handleMessage(u, msg, threadId, chatType, t)

\* index.js: bot.on('message', ...) returns for the text '/start' and hands
\* any other message to handleMessage
indexOnMessage(u, msg, threadId, chatType, t) ==
    IF msg.text = Some(<<"/start">>)
    THEN /\ nextMessageId <= MaxMessages
         /\ chat' = MapSet(chat, nextMessageId, Message("user"))
         /\ nextMessageId' = nextMessageId + 1
         /\ UNCHANGED <<lastMenuMessage, lastSubjectMessage, studySessions>>
         /\ ScreenFrame
    ELSE handleMessage(u, msg, threadId, chatType, t)

CommandMessagesTyped == {TextMessage(text) : text \in CommandTexts}

\* one author in a topic: the library calls both listeners for a command
\* message, each an asynchronous function of its own; at every step of the
\* workflow the author types the text the step expects or a /start command,
\* and the command listener runs when no menu is displayed
NextCommand ==
    \/ \E msg \in CommandMessagesTyped :
           /\ nextMessageId <= CommandMessages
           /\ ~ MenuDisplayed
           /\ onTextStart("u1", msg)
    \/ \E m \in DOMAIN chat :
           /\ nextMessageId <= CommandMessages
           /\ ~ HasDraft("u1")
           /\ handleCreateQuestion("u1", m)
    \/ \E m \in DOMAIN chat :
           /\ nextMessageId <= CommandMessages
           /\ HasDraft("u1")
           /\ userState["u1"].state = "WAITING_SUBJECT"
           /\ handleSelectSubject("u1", m, "CC")
    \/ \E msg \in Messages \cup CommandMessagesTyped :
           /\ nextMessageId < CommandMessages
           /\ HasDraft("u1")
           /\ Straight("u1", msg) \/ msg \in CommandMessagesTyped
           /\ botOnMessage("u1", msg, TRUE, "supergroup", 0)
    \/ \E msg \in Messages \cup CommandMessagesTyped :
           /\ nextMessageId < CommandMessages
           /\ HasDraft("u1")
           /\ Straight("u1", msg) \/ msg \in CommandMessagesTyped
           /\ indexOnMessage("u1", msg, TRUE, "supergroup", 0)
    \/ \E m \in DOMAIN chat :
           nextMessageId <= CommandMessages /\ handleConfirmChoices("u1", m)
    \/ \E m \in DOMAIN chat :
           nextMessageId <= CommandMessages /\ handleConfirmAnswer("u1", m)

SpecCommand == Init /\ [][NextCommand]_vars

----------------------------------------------------------------------------
(* Properties of the /start command *)

IsCommand(field) == IsDefined(field) /\ Get(field) \in CommandTexts

\* the choices or the answer letter of a draft or question come from a
\* command text
CommandInChoices(data) ==
    \/ \E f \in {data.tempChoices, data.choices} :
           IsDefined(f) /\ \E i \in DOMAIN Get(f) :
               \E text \in CommandTexts : Get(f)[i].text = text[1]
    \/ \E f \in {data.tempAnswer, data.correctAnswer} :
           IsDefined(f) /\ \E text \in CommandTexts : Get(f) = text[1]

\* C38: the text of a /start command is never stored by the authoring
\* workflow: no draft and no stored question has '/start' or '/start@bot' as
\* its question text, among its choices, as its answer or as its
\* explanation.
C38_CommandNeverStored ==
    /\ \A u \in DOMAIN userState :
           /\ ~ IsCommand(userState[u].questionData.question)
           /\ ~ CommandInChoices(userState[u].questionData)
    /\ \A q \in DOMAIN questions :
           /\ ~ IsCommand(questions[q].question)
           /\ ~ IsCommand(questions[q].explanation)
           /\ ~ CommandInChoices(questions[q])

\* the part of C38 that holds: a command is one line and no answer letter,
\* so it is never taken as the choices or as the answer
C38_CommandNeverChoicesOrAnswer ==
    /\ \A u \in DOMAIN userState : ~ CommandInChoices(userState[u].questionData)
    /\ \A q \in DOMAIN questions : ~ CommandInChoices(questions[q])

\* index.js keeps the exact text '/start' away from the workflow
C38_IndexDropsStart ==
    [][\A u \in Users :
          indexOnMessage(u, TextMessage(<<"/start">>), TRUE, "supergroup", 0) =>
              /\ userState' = userState
              /\ questions' = questions]_vars

\* a draft has the command as its question text
C38_CommandIsQuestion ==
    \E u \in DOMAIN userState : IsCommand(userState[u].questionData.question)

\* a question was published with the command as its explanation
C38_CommandIsExplanation ==
    \E q \in DOMAIN questions :
        /\ IsCommand(questions[q].explanation)
        /\ ~ IsCommand(questions[q].question)

----------------------------------------------------------------------------
(* Properties of the explanation *)

\* a message of user u reaches the workflow while u's draft waits for the
\* explanation
ExplanationStep(u, msg) ==
    /\ HasDraft(u)
    /\ userState[u].state = "WAITING_EXPLANATION"
    /\ handleQuestionCreation(u, msg, 0)

\* C39: a question is published only by a message that carries explanation
\* text: every stored question has a defined explanation, and a message
\* without text received while the draft waits for the explanation leaves the
\* draft waiting for the explanation and stores no question.
C39_PublishedOnlyWithExplanationText ==
    /\ [](\A q \in DOMAIN questions :
              /\ IsDefined(questions[q].explanation)
              /\ Get(questions[q].explanation) \in Texts)
    /\ [][\A u \in Users, msg \in Messages :
             (ExplanationStep(u, msg) /\ ~ IsDefined(msg.text)) =>
                 /\ u \in DOMAIN userState'
                 /\ userState'[u].state = "WAITING_EXPLANATION"
                 /\ questions' = questions]_vars

\* the part of C39 that holds: a message with text publishes the question
\* with that text as its explanation
C39_TextIsTheExplanation ==
    [][\A u \in Users, msg \in Messages :
          (ExplanationStep(u, msg) /\ IsDefined(msg.text)) =>
              /\ u \notin DOMAIN userState'
              /\ \E q \in DOMAIN questions' :
                     /\ questions'[q].creatorId = u
                     /\ questions'[q].explanation = msg.text]_vars

\* what the code does with a message without text: the question is published
\* and the draft is gone
C39_TextlessMessagePublishes ==
    [][\A u \in Users, msg \in Messages :
          (ExplanationStep(u, msg) /\ ~ IsDefined(msg.text)) =>
              /\ u \notin DOMAIN userState'
              /\ \E q \in DOMAIN questions' :
                     ~ IsDefined(questions'[q].explanation)]_vars

\* a question is stored without an explanation and its author has no draft
C39_StoredWithoutExplanation ==
    \E q \in DOMAIN questions :
        /\ ~ IsDefined(questions[q].explanation)
        /\ questions[q].creatorId \notin DOMAIN userState
        /\ \E m \in DOMAIN chat : chat[m].question = Some(q)

====
